---- MODULE Spec2Model ----
(***************************************************************************)
(* The Session Engine of the tic-tac-toe server: players, games, history,  *)
(* and the request handlers that act on them.  Two copies of the engine    *)
(* exist in the repository and differ in a few handlers:                   *)
(*   "logic"  : GameLogic in game_logic.py (same code as HttpHandler in    *)
(*              http.py), driven by server_thread_pool.py;                 *)
(*   "server" : TicTacToeHttpServer in server.py (the full-reaping one).   *)
(* The variable `variant` says which copy is running.                      *)
(***************************************************************************)
EXTENDS Integers, Sequences, FiniteSets, TLC

VARIABLES
    variant,       \* which copy of the engine runs: "logic" or "server"
    players,       \* self.players: dict player id -> player record
    order,         \* insertion order of self.players (dict iteration order)
    games,         \* self.games: dict game id -> game record
    game_history,  \* self.game_history: dict player id -> list of entries
    state_file,    \* the snapshot last written to game_state.json, or None
    reply,         \* the reply of the last request
    last,          \* what the last step did (operation and its inputs)
    nCreated,      \* number of games created so far
    lock,          \* self.lock: the thread that holds it, or None
    threads,       \* the handler threads and the reaper thread: where each is
    backend_list,  \* the load balancer's BackendServerList
    probe,         \* the health check thread: its position and its local list
    reachable,     \* the backends that accept connections right now
    picks,         \* the selections made so far, each with what was reachable
    conn           \* the client connection the balancer is handling

vars == <<variant, players, order, games, game_history, state_file, reply, last,
          nCreated, lock, threads, backend_list, probe, reachable, picks,
          conn>>

----------------------------------------------------------------------------
(* Bounds and inputs *)

PlayerIds == {"p1", "p2", "p3"}
GameIds == {"g1", "g2"}
Variants == {"logic", "server"}
MaxGames == 2
PlayGames == 1
MaxSpectators == 1

\* Python's None, and the empty player id of a request to "/player/"
None == "none"
EmptyId == ""

BoardSize == 3
Cells == 0 .. (BoardSize - 1)
\* row and col as a request can carry them: in range, and out of range on both sides

----------------------------------------------------------------------------
(* Python dicts and lists *)

\* d.get(k, default)
Get(d, k, default) == IF k \in DOMAIN d THEN d[k] ELSE default

\* d[k] = v
Put(d, k, v) == [x \in (DOMAIN d) \cup {k} |-> IF x = k THEN v ELSE d[x]]

\* del d[k]
Del(d, k) == [x \in (DOMAIN d) \ {k} |-> d[x]]

\* {**base, **over}
Merge(base, over) == over @@ base

EmptyDict == [x \in {} |-> None]

\* x in list
InList(x, list) == \E i \in 1 .. Len(list) : list[i] = x

\* list.remove(x): the first occurrence goes
RECURSIVE ListRemove(_, _)
ListRemove(list, x) ==
    IF list = <<>> THEN <<>>
    ELSE IF Head(list) = x THEN Tail(list)
    ELSE <<Head(list)>> \o ListRemove(Tail(list), x)

\* symbols[pid] = sym on a dict kept in insertion order as a list of pairs
SymSet(symbols, pid, sym) ==
    IF \E i \in 1 .. Len(symbols) : symbols[i][1] = pid
    THEN [i \in 1 .. Len(symbols) |->
            IF symbols[i][1] = pid THEN <<pid, sym>> ELSE symbols[i]]
    ELSE Append(symbols, <<pid, sym>>)

\* next((pid for pid, sym in symbols.items() if sym == winner), None)
FirstWithSymbol(symbols, sym) ==
    IF \E i \in 1 .. Len(symbols) : symbols[i][2] = sym
    THEN symbols[CHOOSE i \in 1 .. Len(symbols) :
                    /\ symbols[i][2] = sym
                    /\ \A j \in 1 .. (i - 1) : symbols[j][2] # sym][1]
    ELSE None

\* next((p for p in players if p != player_id), None)
FirstOther(list, pid) ==
    IF \E i \in 1 .. Len(list) : list[i] # pid
    THEN list[CHOOSE i \in 1 .. Len(list) :
                    /\ list[i] # pid
                    /\ \A j \in 1 .. (i - 1) : list[j] = pid]
    ELSE None

----------------------------------------------------------------------------
(* The engine state handed from handler to handler *)

\* disk says whether open(self.state_file, "w") works during the call, and
\* failed whether the call has run into it
State == [players |-> players, order |-> order, games |-> games,
          game_history |-> game_history, state_file |-> state_file,
          disk |-> "ok", failed |-> FALSE]

\* a handler's result: the new state and what it returns; raised is TRUE when
\* the handler ends in an uncaught exception
Result(s, body) == [s |-> s, body |-> body, raised |-> s.failed]
Raise(s) == [s |-> s, body |-> EmptyDict, raised |-> TRUE]

Error(msg) == [status |-> "ERROR", message |-> msg]

\* truthiness of a player's game_id: `self.players[pid].get("game_id")`
HasGameId(s, pid) == s.players[pid].game_id # None

----------------------------------------------------------------------------
(* Persistence and presence *)

\* load_game_state: the file is read back when the process starts; readable
\* is FALSE when open or json.load fails.  isoformat() writes the microsecond
\* of last_seen when it is not 0; server.py cuts the text at the "." before
\* it parses, game_logic.py parses all of it with fromisoformat.
load_game_state(s, v, readable) ==
    IF ~ readable
    THEN [s EXCEPT !.players = EmptyDict, !.order = <<>>, !.games = EmptyDict,
                   !.game_history = EmptyDict]
    ELSE LET file == s.state_file
             stored(p) == p \in DOMAIN file.players
         IN  [s EXCEPT
                !.games = file.games,
                !.players =
                    [p \in DOMAIN file.players |->
                        IF v = "server"
                        THEN [file.players[p] EXCEPT !.last_seen_us = 0]
                        ELSE file.players[p]],
                !.order = SelectSeq(s.order, stored),
                !.game_history = file.game_history]

\* save_game_state: the whole of players, games and history is written.
\* A player's last_seen is held as the seconds elapsed since that timestamp.
save_game_state(s) ==
    IF s.disk = "ok"
    THEN [s EXCEPT !.state_file = [games |-> s.games, players |-> s.players,
                                   game_history |-> s.game_history]]
    ELSE [s EXCEPT !.failed = TRUE]

\* the microsecond field of datetime.utcnow(): the clock is read at whole
\* seconds past this fraction, which is not 0
Microsecond == 1

\* update_player_last_seen that refreshes last_seen and leaves the status
update_player_last_seen_only(s, pid) ==
    IF pid \in DOMAIN s.players
    THEN [s EXCEPT !.players[pid].last_seen = 0,
                   !.players[pid].last_seen_us = Microsecond]
    ELSE s

\* update_player_last_seen: refresh, and save only on an offline -> online flip
update_player_last_seen(s, pid) ==
    IF pid \in DOMAIN s.players
    THEN LET s1 == [s EXCEPT !.players[pid].last_seen = 0,
                             !.players[pid].last_seen_us = Microsecond]
         IN  IF s1.players[pid].connection_status = "offline"
             THEN save_game_state(
                      [s1 EXCEPT !.players[pid].connection_status = "online"])
             ELSE s1
    ELSE s

----------------------------------------------------------------------------
(* Registration, creating and joining *)

NewPlayer == [game_id |-> None, symbol |-> None, last_seen |-> 0,
              last_seen_us |-> Microsecond, connection_status |-> "online"]

\* register_player that writes a fresh record over the one it finds
register_player_fresh(s, pid) ==
    IF pid = EmptyId
    THEN Result(s, Error("Player ID required"))
    ELSE LET s1 == IF pid \notin DOMAIN s.players
                   THEN [s EXCEPT !.players = Put(s.players, pid, NewPlayer),
                                  !.order = Append(s.order, pid)]
                   ELSE [s EXCEPT !.players[pid] = NewPlayer]
         IN  Result(save_game_state(s1),
                    [status |-> "OK", message |-> "Player registered",
                     player_id |-> pid])

register_player(s, pid) ==
    IF pid = EmptyId
    THEN Result(s, Error("Player ID required"))
    ELSE LET s1 == IF pid \notin DOMAIN s.players
                   THEN [s EXCEPT !.players = Put(s.players, pid, NewPlayer),
                                  !.order = Append(s.order, pid)]
                   ELSE [s EXCEPT !.players[pid].last_seen = 0,
                                  !.players[pid].last_seen_us = Microsecond,
                                  !.players[pid].connection_status = "online"]
         IN  Result(save_game_state(s1),
                    [status |-> "OK", message |-> "Player registered",
                     player_id |-> pid])

EmptyBoard == [r \in Cells |-> [c \in Cells |-> "."]]

NewGame(pid) ==
    [board |-> EmptyBoard, players |-> <<pid>>, spectators |-> <<>>,
     current_turn_idx |-> 0, status |-> "waiting", winner |-> None,
     symbols |-> <<<<pid, "X">>>>]

create_game_unchecked(s, pid, game_id) ==
    IF pid \notin DOMAIN s.players
    THEN Result(s, Error("Player not registered or already in a game"))
    ELSE LET s1 == [s EXCEPT !.games = Put(s.games, game_id, NewGame(pid)),
                             !.players[pid].game_id = game_id,
                             !.players[pid].symbol = "X"]
         IN  Result(save_game_state(s1),
                    [status |-> "OK", message |-> "Game created",
                     game_id |-> game_id])

\* create_game; game_id is what uuid4().hex[:4] happened to return
create_game(s, pid, game_id) ==
    IF pid \notin DOMAIN s.players \/ HasGameId(s, pid)
    THEN Result(s, Error("Player not registered or already in a game"))
    ELSE LET s1 == [s EXCEPT !.games = Put(s.games, game_id, NewGame(pid)),
                             !.players[pid].game_id = game_id,
                             !.players[pid].symbol = "X"]
         IN  Result(save_game_state(s1),
                    [status |-> "OK", message |-> "Game created",
                     game_id |-> game_id])

\* get_game_state; the two copies differ in when current_turn is given
get_game_state(s, v, pid) ==
    IF pid \notin DOMAIN s.players THEN Error("Invalid player ID")
    ELSE LET game_id == s.players[pid].game_id IN
         IF game_id = None \/ game_id \notin DOMAIN s.games
         THEN Error("Player not in a game")
         ELSE LET game == s.games[game_id]
                  has_turn == /\ game.status = "playing"
                              /\ IF v = "logic" THEN Len(game.players) = 2
                                 ELSE game.players # <<>>
                  current_player ==
                      IF has_turn THEN game.players[game.current_turn_idx + 1]
                      ELSE None
                  listed == {game.players[i] : i \in 1 .. Len(game.players)}
                  player_statuses ==
                      [p \in listed |->
                          IF p \in DOMAIN s.players
                          THEN s.players[p].connection_status ELSE "offline"]
              IN  [status |-> "OK",
                   game_state |->
                       [board |-> game.board,
                        game_status |-> game.status,
                        current_turn |-> current_player,
                        winner |-> game.winner,
                        your_symbol |-> s.players[pid].symbol,
                        players |-> game.players,
                        symbols |-> game.symbols,
                        player_statuses |-> player_statuses]]

\* join_game without the test that the caller holds no game id
join_game_rejoin(s, v, pid, game_id) ==
    IF pid \notin DOMAIN s.players
    THEN Result(s, Error("Player not registered or already in a game"))
    ELSE IF \/ game_id = None
            \/ game_id \notin DOMAIN s.games
            \/ s.games[game_id].status # "waiting"
    THEN Result(s, Error("Game not available for joining"))
    ELSE LET game == s.games[game_id]
             s1 == [s EXCEPT
                      !.games[game_id].players = Append(game.players, pid),
                      !.games[game_id].status = "playing",
                      !.games[game_id].symbols = SymSet(game.symbols, pid, "O"),
                      !.players[pid].game_id = game_id,
                      !.players[pid].symbol = "O"]
             s2 == save_game_state(s1)
         IN  Result(s2, Merge([status |-> "OK", message |-> "Joined game"],
                              get_game_state(s2, v, pid)))

join_game_any_status(s, v, pid, game_id) ==
    IF pid \notin DOMAIN s.players \/ HasGameId(s, pid)
    THEN Result(s, Error("Player not registered or already in a game"))
    ELSE IF game_id = None \/ game_id \notin DOMAIN s.games
    THEN Result(s, Error("Game not available for joining"))
    ELSE LET game == s.games[game_id]
             s1 == [s EXCEPT
                      !.games[game_id].players = Append(game.players, pid),
                      !.games[game_id].status = "playing",
                      !.games[game_id].symbols = SymSet(game.symbols, pid, "O"),
                      !.players[pid].game_id = game_id,
                      !.players[pid].symbol = "O"]
             s2 == save_game_state(s1)
         IN  Result(s2, Merge([status |-> "OK", message |-> "Joined game"],
                              get_game_state(s2, v, pid)))

join_game(s, v, pid, game_id) ==
    IF pid \notin DOMAIN s.players \/ HasGameId(s, pid)
    THEN Result(s, Error("Player not registered or already in a game"))
    ELSE IF \/ game_id = None
            \/ game_id \notin DOMAIN s.games
            \/ s.games[game_id].status # "waiting"
    THEN Result(s, Error("Game not available for joining"))
    ELSE IF Len(s.games[game_id].players) >= 2
    THEN Result(s, Error("Game is already full"))
    ELSE LET game == s.games[game_id]
             s1 == [s EXCEPT
                      !.games[game_id].players = Append(game.players, pid),
                      !.games[game_id].status = "playing",
                      !.games[game_id].symbols = SymSet(game.symbols, pid, "O"),
                      !.players[pid].game_id = game_id,
                      !.players[pid].symbol = "O"]
             s2 == save_game_state(s1)
         IN  Result(s2, Merge([status |-> "OK", message |-> "Joined game"],
                              get_game_state(s2, v, pid)))

\* spectate_game; only server.py refuses a game that is still waiting
spectate_game(s, v, pid, game_id) ==
    IF pid \notin DOMAIN s.players \/ HasGameId(s, pid)
    THEN Result(s, Error("Player not registered or already in a game"))
    ELSE IF game_id = None \/ game_id \notin DOMAIN s.games
    THEN Result(s, Error("Game does not exist"))
    ELSE IF v = "server" /\ s.games[game_id].status \notin {"playing", "finished"}
    THEN Result(s, Error("Game not available for spectating"))
    ELSE LET game == s.games[game_id]
             s1 == [s EXCEPT
                      !.games[game_id].spectators = Append(game.spectators, pid),
                      !.players[pid].game_id = game_id,
                      !.players[pid].symbol = None]
             s2 == save_game_state(s1)
         IN  Result(s2, Merge([status |-> "OK", message |-> "Now spectating game"],
                              get_game_state(s2, v, pid)))

get_available_games_all(s) ==
    [status |-> "OK",
     available_games |->
        {[game_id |-> gid, created_by |-> s.games[gid].players[1],
          status |-> s.games[gid].status] : gid \in DOMAIN s.games}]

get_available_games(s) ==
    [status |-> "OK",
     available_games |->
        {[game_id |-> gid, created_by |-> s.games[gid].players[1],
          status |-> s.games[gid].status] :
            gid \in {g \in DOMAIN s.games :
                        s.games[g].status \in {"waiting", "playing"}}}]

----------------------------------------------------------------------------
(* Moves and the end of a game *)

Line(board, symbol) ==
    \/ \E i \in Cells :
          \/ \A j \in Cells : board[i][j] = symbol
          \/ \A j \in Cells : board[j][i] = symbol
    \/ \A i \in Cells : board[i][i] = symbol
    \/ \A i \in Cells : board[i][BoardSize - 1 - i] = symbol

\* check_winner that takes two marks on the main diagonal for a line
check_winner_two_marks(board) ==
    LET line(symbol) ==
            \/ \E i \in Cells :
                  \/ \A j \in Cells : board[i][j] = symbol
                  \/ \A j \in Cells : board[j][i] = symbol
            \/ \A i \in 1 .. (BoardSize - 1) : board[i][i] = symbol
            \/ \A i \in Cells : board[i][BoardSize - 1 - i] = symbol
    IN  IF line("X") THEN "X" ELSE IF line("O") THEN "O" ELSE None

\* check_winner that does not look at the diagonal from the top right
check_winner_no_anti(board) ==
    LET line(symbol) ==
            \/ \E i \in Cells :
                  \/ \A j \in Cells : board[i][j] = symbol
                  \/ \A j \in Cells : board[j][i] = symbol
            \/ \A i \in Cells : board[i][i] = symbol
    IN  IF line("X") THEN "X" ELSE IF line("O") THEN "O" ELSE None

\* check_winner: "X" is looked for before "O"
check_winner(board) ==
    IF Line(board, "X") THEN "X"
    ELSE IF Line(board, "O") THEN "O"
    ELSE None

is_board_full(board) == \A r \in Cells : \A c \in Cells : board[r][c] # "."

HistoryEntry(game_id, game, winner_id, reason) ==
    [game_id |-> game_id, players |-> game.players, winner |-> winner_id,
     symbols |-> game.symbols, reason |-> reason]

\* the loop of _end_game_and_record_history over players + spectators
RECURSIVE RecordFor(_, _, _)
RecordFor(s, involved, entry) ==
    IF involved = <<>> THEN s
    ELSE LET p_id == Head(involved)
             s1 == [s EXCEPT !.game_history =
                        Put(s.game_history, p_id,
                            Append(Get(s.game_history, p_id, <<>>), entry))]
             s2 == IF p_id \in DOMAIN s1.players
                   THEN [s1 EXCEPT !.players[p_id].game_id = None,
                                   !.players[p_id].symbol = None]
                   ELSE s1
         IN  RecordFor(s2, Tail(involved), entry)

\* _end_game_and_record_history that forgets the spectators
end_game_players_only(s, game_id, winner_id, reason) ==
    IF game_id \notin DOMAIN s.games \/ s.games[game_id].status = "finished"
    THEN s
    ELSE LET s1 == [s EXCEPT !.games[game_id].status = "finished",
                             !.games[game_id].winner = winner_id]
             game == s1.games[game_id]
         IN  RecordFor(s1, game.players,
                       HistoryEntry(game_id, game, winner_id, reason))

end_game_and_record_history(s, game_id, winner_id, reason) ==
    IF game_id \notin DOMAIN s.games \/ s.games[game_id].status = "finished"
    THEN s
    ELSE LET s1 == [s EXCEPT !.games[game_id].status = "finished",
                             !.games[game_id].winner = winner_id]
             game == s1.games[game_id]
         IN  RecordFor(s1, game.players \o game.spectators,
                       HistoryEntry(game_id, game, winner_id, reason))

\* apply_move that looks for a full board before it looks for a winner
apply_move_draw_first(s, v, pid, game_id, row, col) ==
    LET symbol == s.players[pid].symbol
        s1 == [s EXCEPT !.games[game_id].board[row][col] = symbol]
        game == s1.games[game_id]
        winner == check_winner(game.board)
        s2 == IF is_board_full(game.board)
              THEN end_game_and_record_history(s1, game_id, "draw", "draw")
              ELSE IF winner # None
              THEN end_game_and_record_history(
                       s1, game_id, FirstWithSymbol(game.symbols, winner), "win")
              ELSE [s1 EXCEPT !.games[game_id].current_turn_idx =
                                  1 - game.current_turn_idx]
        s3 == save_game_state(s2)
    IN  Result(s3, Merge([status |-> "OK", message |-> "Move made"],
                         get_game_state(s3, v, pid)))

\* apply_move that never passes the turn
apply_move_keeps_turn(s, v, pid, game_id, row, col) ==
    LET symbol == s.players[pid].symbol
        s1 == [s EXCEPT !.games[game_id].board[row][col] = symbol]
        game == s1.games[game_id]
        winner == check_winner(game.board)
        s2 == IF winner # None
              THEN end_game_and_record_history(
                       s1, game_id, FirstWithSymbol(game.symbols, winner), "win")
              ELSE IF is_board_full(game.board)
              THEN end_game_and_record_history(s1, game_id, "draw", "draw")
              ELSE s1
        s3 == save_game_state(s2)
    IN  Result(s3, Merge([status |-> "OK", message |-> "Move made"],
                         get_game_state(s3, v, pid)))

\* the part of make_move after the checks: write the mark, end or pass the turn
apply_move(s, v, pid, game_id, row, col) ==
    LET symbol == s.players[pid].symbol
        s1 == [s EXCEPT !.games[game_id].board[row][col] = symbol]
        game == s1.games[game_id]
        winner == check_winner(game.board)
        s2 == IF winner # None
              THEN end_game_and_record_history(
                       s1, game_id, FirstWithSymbol(game.symbols, winner), "win")
              ELSE IF is_board_full(game.board)
              THEN end_game_and_record_history(s1, game_id, "draw", "draw")
              ELSE [s1 EXCEPT !.games[game_id].current_turn_idx =
                                  1 - game.current_turn_idx]
        s3 == save_game_state(s2)
    IN  Result(s3, Merge([status |-> "OK", message |-> "Move made"],
                         get_game_state(s3, v, pid)))

\* make_move without the test of whose turn it is
make_move_any_turn(s, v, pid, row, col) ==
    IF pid \notin DOMAIN s.players
    THEN Result(s, Error("Invalid player ID"))
    ELSE LET game_id == s.players[pid].game_id IN
         IF game_id = None \/ game_id \notin DOMAIN s.games
         THEN Result(s, Error("Player not in a game"))
         ELSE LET game == s.games[game_id] IN
              IF game.status # "playing"
              THEN Result(s, Error("Game not in progress"))
              ELSE IF ~ (/\ row \in Cells
                         /\ col \in Cells
                         /\ game.board[row][col] = ".")
              THEN Result(s, Error("Invalid move"))
              ELSE apply_move(s, v, pid, game_id, row, col)

\* make_move; server.py looks the game up without checking that it is stored
make_move(s, v, pid, row, col) ==
    IF pid \notin DOMAIN s.players
    THEN Result(s, Error("Invalid player ID"))
    ELSE LET game_id == s.players[pid].game_id IN
         IF game_id = None \/ (v = "logic" /\ game_id \notin DOMAIN s.games)
         THEN Result(s, Error("Player not in a game"))
         ELSE IF game_id \notin DOMAIN s.games
         THEN Raise(s)
         ELSE LET game == s.games[game_id] IN
              IF game.status # "playing"
              THEN Result(s, Error("Game not in progress"))
              ELSE IF game.players[game.current_turn_idx + 1] # pid
              THEN Result(s, Error("Not your turn"))
              ELSE IF ~ (/\ row \in Cells
                         /\ col \in Cells
                         /\ game.board[row][col] = ".")
              THEN Result(s, Error("Invalid move"))
              ELSE apply_move(s, v, pid, game_id, row, col)

----------------------------------------------------------------------------
(* History and leaving *)

\* get_player_history; server.py first rewrites the symbols of every entry
\* whose game id is still stored
RefreshSymbols(s, entry) ==
    IF entry.game_id \in DOMAIN s.games
    THEN [entry EXCEPT !.symbols = s.games[entry.game_id].symbols]
    ELSE entry

get_player_history(s, v, pid) ==
    IF pid \notin DOMAIN s.players
    THEN Result(s, Error("Player not registered."))
    ELSE LET mine == Get(s.game_history, pid, <<>>)
             \* the entry appended at a game's end is one object shared by the
             \* lists of all involved players
             touched == {mine[i] : i \in 1 .. Len(mine)}
             s1 == IF v = "server"
                   THEN [s EXCEPT !.game_history =
                           [p \in DOMAIN s.game_history |->
                              [i \in 1 .. Len(s.game_history[p]) |->
                                 IF s.game_history[p][i] \in touched
                                 THEN RefreshSymbols(s, s.game_history[p][i])
                                 ELSE s.game_history[p][i]]]]
                   ELSE s
         IN  Result(s1, [status |-> "OK",
                         history |-> Get(s1.game_history, pid, <<>>)])

\* what leave_game does to the player's game in game_logic.py
leave_logic(s, pid, game_id) ==
    LET game == s.games[game_id] IN
    IF InList(pid, game.players) /\ game.status # "finished"
    THEN IF Len(game.players) > 1
         THEN LET other_player == FirstOther(game.players, pid) IN
              IF other_player # None
              THEN end_game_and_record_history(s, game_id, other_player, "forfeit")
              ELSE s
         ELSE [s EXCEPT !.games = Del(s.games, game_id)]
    ELSE IF InList(pid, game.spectators)
    THEN [s EXCEPT !.games[game_id].spectators = ListRemove(game.spectators, pid),
                   !.players[pid].game_id = None]
    ELSE s

\* what leave_game does to the player's game in server.py
leave_server(s, pid, game_id) ==
    LET game == s.games[game_id] IN
    IF InList(pid, game.spectators)
    THEN [s EXCEPT !.games[game_id].spectators = ListRemove(game.spectators, pid)]
    ELSE IF InList(pid, game.players)
    THEN IF game.status # "finished" /\ Len(game.players) > 1
         THEN LET other_player == FirstOther(game.players, pid) IN
              IF other_player # None
              THEN end_game_and_record_history(s, game_id, other_player,
                                               "disconnect")
              ELSE s
         ELSE IF game.status = "waiting"
         THEN [s EXCEPT !.games = Del(s.games, game_id)]
         ELSE s
    ELSE s

\* leave_game that refuses a caller who holds no game
leave_game_needs_game(s, v, pid) ==
    IF pid \notin DOMAIN s.players
    THEN Result(s, Error("Invalid player ID."))
    ELSE IF ~ HasGameId(s, pid)
    THEN Result(s, Error("Player not in a game"))
    ELSE LET game_id == s.players[pid].game_id
             s1 == IF game_id \in DOMAIN s.games
                   THEN IF v = "logic" THEN leave_logic(s, pid, game_id)
                        ELSE leave_server(s, pid, game_id)
                   ELSE s
             s2 == [s1 EXCEPT !.players[pid].game_id = None,
                              !.players[pid].symbol = None]
         IN  Result(save_game_state(s2),
                    [status |-> "OK", message |-> "You have left the game."])

\* leave_game that clears the caller and leaves the game stored
leave_game_keeps_game(s, v, pid) ==
    IF pid \notin DOMAIN s.players
    THEN Result(s, Error("Invalid player ID."))
    ELSE LET s2 == [s EXCEPT !.players[pid].game_id = None,
                             !.players[pid].symbol = None]
         IN  Result(save_game_state(s2),
                    [status |-> "OK", message |-> "You have left the game."])

leave_game(s, v, pid) ==
    IF pid \notin DOMAIN s.players
    THEN Result(s, Error("Invalid player ID."))
    ELSE LET game_id == s.players[pid].game_id
             s1 == IF game_id # None /\ game_id \in DOMAIN s.games
                   THEN IF v = "logic" THEN leave_logic(s, pid, game_id)
                        ELSE leave_server(s, pid, game_id)
                   ELSE s
             s2 == [s1 EXCEPT !.players[pid].game_id = None,
                              !.players[pid].symbol = None]
         IN  Result(save_game_state(s2),
                    [status |-> "OK", message |-> "You have left the game."])

----------------------------------------------------------------------------
(* Time and the reaper *)

OfflineThreshold == 10
TimeoutThreshold == 30
TimeStep == 10

\* seconds since last_seen, kept exact up to the larger threshold
Older(age, dt) ==
    IF age + dt > TimeoutThreshold THEN TimeoutThreshold + 1 ELSE age + dt

AgePlayers(ps, dt) ==
    [p \in DOMAIN ps |-> [ps[p] EXCEPT !.last_seen = Older(ps[p].last_seen, dt)]]

\* the players holding a game id, in the dict's order
RECURSIVE InGame(_, _)
InGame(s, ord) ==
    IF ord = <<>> THEN <<>>
    ELSE IF HasGameId(s, Head(ord)) THEN <<Head(ord)>> \o InGame(s, Tail(ord))
    ELSE InGame(s, Tail(ord))

\* now - last_seen > threshold, now being read at the clock's fraction
Late(player, threshold) ==
    \/ player.last_seen > threshold
    \/ player.last_seen = threshold /\ player.last_seen_us < Microsecond

mark_offline(s, pid) ==
    IF Late(s.players[pid], OfflineThreshold)
       /\ s.players[pid].connection_status = "online"
    THEN [s |-> [s EXCEPT !.players[pid].connection_status = "offline"],
          changed |-> TRUE]
    ELSE [s |-> s, changed |-> FALSE]

\* the loop of check_inactive_players (game_logic.py)
RECURSIVE check_loop(_, _, _)
check_loop(s, todo, changed) ==
    IF todo = <<>> THEN [s |-> s, changed |-> changed]
    ELSE LET r == mark_offline(s, Head(todo))
         IN  check_loop(r.s, Tail(todo), changed \/ r.changed)

\* the loop of reap_inactive_players without the timeout branch
RECURSIVE reap_loop_offline_only(_, _, _)
reap_loop_offline_only(s, todo, changed) ==
    IF todo = <<>> THEN [s |-> s, changed |-> changed]
    ELSE LET r == mark_offline(s, Head(todo))
         IN  reap_loop_offline_only(r.s, Tail(todo), changed \/ r.changed)

\* the loop of reap_inactive_players (server.py): a timed-out player leaves
RECURSIVE reap_loop(_, _, _)
reap_loop(s, todo, changed) ==
    IF todo = <<>> THEN [s |-> s, changed |-> changed]
    ELSE LET pid == Head(todo) IN
         IF Late(s.players[pid], TimeoutThreshold)
         THEN reap_loop(leave_game(s, "server", pid).s, Tail(todo), TRUE)
         ELSE LET r == mark_offline(s, pid)
              IN  reap_loop(r.s, Tail(todo), changed \/ r.changed)

reap_inactive_players(s, v) ==
    LET r == IF v = "logic" THEN check_loop(s, InGame(s, s.order), FALSE)
             ELSE reap_loop(s, InGame(s, s.order), FALSE)
    IN  IF r.changed THEN save_game_state(r.s) ELSE r.s

----------------------------------------------------------------------------
(* One request, from the routing in process_request to the reply *)

Ops == {"register", "games", "history", "create", "join", "spectate", "move",
        "state", "leave"}

route(s, v, op, pid, game_id, row, col) ==
    CASE op = "register" -> register_player(s, pid)
      [] op = "games"    -> Result(s, get_available_games(s))
      [] op = "history"  -> get_player_history(s, v, pid)
      [] op = "create"   -> create_game(s, pid, game_id)
      [] op = "join"     -> join_game(s, v, pid, game_id)
      [] op = "spectate" -> spectate_game(s, v, pid, game_id)
      [] op = "move"     -> make_move(s, v, pid, row, col)
      [] op = "state"    -> Result(s, get_game_state(s, v, pid))
      [] op = "leave"    -> leave_game(s, v, pid)

\* process_request: a known player id in the path is refreshed first; an
\* exception in the handler is answered with 500 by handle_request
process_request(s, v, op, pid, game_id, row, col) ==
    LET s1 == IF op # "games" THEN update_player_last_seen(s, pid) ELSE s
        r == IF s1.failed THEN Raise(s1)
             ELSE route(s1, v, op, pid, game_id, row, col)
    IN  IF r.raised
        THEN [s |-> r.s, code |-> 500, body |-> Error("exception")]
        ELSE [s |-> r.s, code |-> 200, body |-> r.body]

NoRow == 0 - 9

\* handle_request, from the read of the request to the reply being ready
Serve(disk, op, pid, game_id, row, col) ==
    LET r == process_request([State EXCEPT !.disk = disk], variant, op, pid,
                             game_id, row, col) IN
    /\ last.op = "idle"
    /\ players' = r.s.players
    /\ order' = r.s.order
    /\ games' = r.s.games
    /\ game_history' = r.s.game_history
    /\ state_file' = r.s.state_file
    /\ reply' = [code |-> r.code, body |-> r.body]
    /\ last' = [op |-> op, pid |-> pid]
    /\ nCreated' = IF op = "create" /\ r.s.games # games
                   THEN nCreated + 1 ELSE nCreated
    /\ UNCHANGED <<backend_list, probe, reachable, picks, conn, variant, lock, threads>>

\* a request served while the state file can be written
Request(op, pid, game_id, row, col) == Serve("ok", op, pid, game_id, row, col)

Register(pid) == Request("register", pid, None, NoRow, NoRow)
ListGames == Request("games", None, None, NoRow, NoRow)
History(pid) == Request("history", pid, None, NoRow, NoRow)
CreateGame(pid, game_id) == Request("create", pid, game_id, NoRow, NoRow)
JoinGame(pid, game_id) == Request("join", pid, game_id, NoRow, NoRow)
SpectateGame(pid, game_id) == Request("spectate", pid, game_id, NoRow, NoRow)
MakeMove(pid, row, col) == Request("move", pid, None, row, col)
GetState(pid) == Request("state", pid, None, NoRow, NoRow)
LeaveGame(pid) == Request("leave", pid, None, NoRow, NoRow)

NoLast(op) == [op |-> op, pid |-> None]

NoReply == [code |-> 0, body |-> EmptyDict]

\* the end of handle_request: the reply is sent and the socket closed; the
\* end of a reaper pass
Close ==
    /\ last.op # "idle"
    /\ last' = NoLast("idle")
    /\ reply' = NoReply
    /\ UNCHANGED <<backend_list, probe, reachable, picks, conn, variant, players, order, games, game_history, state_file,
                   nCreated, lock, threads>>

\* time passes
Pass(dt) ==
    /\ last.op = "idle"
    /\ players' = AgePlayers(players, dt)
    /\ state_file' = [state_file EXCEPT
                         !.players = AgePlayers(state_file.players, dt)]
    /\ last' = NoLast("elapse")
    /\ UNCHANGED <<backend_list, probe, reachable, picks, conn, variant, order, games, game_history, reply, nCreated, lock,
                   threads>>

Elapse == Pass(TimeStep)

\* the process is stopped and started again: __init__ loads the state file
Restart(readable) ==
    LET s == load_game_state(State, variant, readable) IN
    /\ last.op = "idle"
    /\ players' = s.players
    /\ order' = s.order
    /\ games' = s.games
    /\ game_history' = s.game_history
    /\ last' = NoLast("restart")
    /\ UNCHANGED <<backend_list, probe, reachable, picks, conn, variant, state_file, reply, nCreated, lock, threads>>

\* one pass of the reaper thread, under the lock
ReaperTick ==
    LET s1 == reap_inactive_players(State, variant) IN
    /\ last.op = "idle"
    /\ players' = s1.players
    /\ order' = s1.order
    /\ games' = s1.games
    /\ game_history' = s1.game_history
    /\ state_file' = s1.state_file
    /\ last' = NoLast("reaper")
    /\ UNCHANGED <<backend_list, probe, reachable, picks, conn, variant, reply, nCreated, lock, threads>>

----------------------------------------------------------------------------
(* The threads of the connection server: one per accepted connection, and   *)
(* the reaper.  A thread is at a place pc of handle_request or              *)
(* reap_inactive_players, and engine code runs between the entry to and the *)
(* exit from `with self.lock`.                                              *)

Workers == {"w1", "w2"}
ReaperId == "reaper"
Threads == Workers \cup {ReaperId}

\* what recv returned: a request, nothing, a line that does not parse; or the
\* client stays silent, or the connection is reset
NoReq == [kind |-> "none", op |-> None, pid |-> None, game_id |-> None]
Asked(op, pid, game_id) ==
    [kind |-> "request", op |-> op, pid |-> pid, game_id |-> game_id]
Other(kind) == [NoReq EXCEPT !.kind = kind]

\* response is 0 while handle_request has not assigned it, else the status code
NoThread(pc) == [pc |-> pc, req |-> NoReq, response |-> 0, sock |-> "none"]

\* a lock that lets a thread in while another holds it
CanAcquireHeld(t) == TRUE

\* entering `with self.lock`: only when no thread holds the lock
CanAcquire(t) == lock = None

At(t, pc) == threads[t].pc = pc
Goto(t, pc) == [threads EXCEPT ![t].pc = pc]

EngineUnchanged == UNCHANGED <<players, order, games, game_history, state_file>>
Commit(s) ==
    /\ players' = s.players
    /\ order' = s.order
    /\ games' = s.games
    /\ game_history' = s.game_history
    /\ state_file' = s.state_file

\* socket.accept and the start of a handler thread on the connection
Accept(w) ==
    /\ threads[w].pc \in {"idle", "ended"}
    /\ threads[w].sock # "open"
    /\ threads' = [threads EXCEPT ![w] = [NoThread("recv") EXCEPT !.sock = "open"]]
    /\ EngineUnchanged
    /\ UNCHANGED <<backend_list, probe, reachable, picks, conn, variant, reply, last, nCreated, lock>>

\* client_socket.recv(4096) and what handle_request does with its outcome
\* before it reaches the lock
Recv(w, q) ==
    /\ At(w, "recv")
    /\ q.kind = "silent" => variant = "logic"
    /\ threads' =
          [threads EXCEPT ![w] =
              CASE q.kind = "request" -> [@ EXCEPT !.pc = "parsed", !.req = q]
                [] q.kind = "malformed" ->
                      IF variant = "server"
                      THEN [@ EXCEPT !.pc = "send", !.response = 400]
                      ELSE [@ EXCEPT !.pc = "parsed", !.req = q]
                [] q.kind = "empty" ->
                      IF variant = "server"
                      THEN [@ EXCEPT !.pc = "ended"]
                      ELSE [@ EXCEPT !.pc = "close"]
                [] q.kind = "silent" -> [@ EXCEPT !.pc = "send", !.response = 408]
                [] q.kind = "reset" -> [@ EXCEPT !.pc = "send", !.response = 500]]
    /\ EngineUnchanged
    /\ UNCHANGED <<backend_list, probe, reachable, picks, conn, variant, reply, last, nCreated, lock>>

\* `with self.lock:` in a handler thread
Acquire(w) ==
    /\ At(w, "parsed")
    /\ CanAcquire(w)
    /\ lock' = w
    /\ threads' = Goto(w, "locked")
    /\ EngineUnchanged
    /\ UNCHANGED <<backend_list, probe, reachable, picks, conn, variant, reply, last, nCreated>>

\* update_player_last_seen for the id in the path
Touch(w) ==
    LET q == threads[w].req IN
    /\ At(w, "locked")
    /\ Commit(IF q.kind = "request" /\ q.op # "games"
              THEN update_player_last_seen(State, q.pid) ELSE State)
    /\ threads' = Goto(w, "touched")
    /\ UNCHANGED <<backend_list, probe, reachable, picks, conn, variant, reply, last, nCreated, lock>>

\* the routed handler; its result becomes the response
Route(w) ==
    LET q == threads[w].req
        r == IF q.kind = "request"
             THEN route(State, variant, q.op, q.pid, q.game_id, NoRow, NoRow)
             ELSE Result(State, Error("Malformed request line"))
    IN
    /\ At(w, "touched")
    /\ Commit(r.s)
    /\ threads' = [threads EXCEPT
                      ![w].pc = "routed",
                      ![w].response = IF r.raised THEN 500
                                      ELSE IF q.kind = "request" THEN 200
                                      ELSE 400]
    /\ nCreated' = IF q.op = "create" /\ r.s.games # games
                   THEN nCreated + 1 ELSE nCreated
    /\ UNCHANGED <<backend_list, probe, reachable, picks, conn, variant, reply, last, lock>>

\* the end of the `with` block
Release(t) ==
    /\ At(t, "routed")
    /\ lock' = None
    /\ threads' = Goto(t, IF t = ReaperId THEN "sleep" ELSE "send")
    /\ EngineUnchanged
    /\ UNCHANGED <<backend_list, probe, reachable, picks, conn, variant, reply, last, nCreated>>

\* client_socket.sendall(response), which fails when the client is gone
Send(w, sent) ==
    /\ At(w, "send")
    /\ threads' = Goto(w, IF sent \/ variant = "logic" THEN "close" ELSE "ended")
    /\ EngineUnchanged
    /\ UNCHANGED <<backend_list, probe, reachable, picks, conn, variant, reply, last, nCreated, lock>>

\* client_socket.close() and the end of the handler
CloseSocket(w) ==
    /\ At(w, "close")
    /\ threads' = [threads EXCEPT ![w].pc = "ended", ![w].sock = "closed"]
    /\ EngineUnchanged
    /\ UNCHANGED <<backend_list, probe, reachable, picks, conn, variant, reply, last, nCreated, lock>>

\* the reaper wakes from time.sleep(5) and enters `with self.lock`
ReaperAcquire ==
    /\ At(ReaperId, "sleep")
    /\ CanAcquire(ReaperId)
    /\ lock' = ReaperId
    /\ threads' = Goto(ReaperId, "locked")
    /\ EngineUnchanged
    /\ UNCHANGED <<backend_list, probe, reachable, picks, conn, variant, reply, last, nCreated>>

\* the reaper's pass over the players
Reap ==
    /\ At(ReaperId, "locked")
    /\ Commit(reap_inactive_players(State, variant))
    /\ threads' = Goto(ReaperId, "routed")
    /\ UNCHANGED <<backend_list, probe, reachable, picks, conn, variant, reply, last, nCreated, lock>>

----------------------------------------------------------------------------
(* The load balancer: lb.py and lb2.py *)

Balancers == {"lb", "lb2"}

\* self.servers of lb.py, self.all_servers of lb2.py: the addresses
all_servers == <<"127.0.0.1:55556", "127.0.0.1:55557", "127.0.0.1:55558">>

MaxDown == 3
MaxPicks == 4

Range(list) == {list[i] : i \in DOMAIN list}

\* BackendServerList.__init__; impl is the file the balancer was started from
NoBalancer == [impl |-> None, healthy_servers |-> <<>>, current |-> 0]

\* the health check thread: i is the next address of its loop (0 while it
\* sleeps), live_servers the list it is building, healthy_servers the list
\* the last finished probe gave, completed whether a probe has finished
NoProbe == [i |-> 0, live_servers |-> <<>>, healthy_servers |-> <<>>,
            completed |-> FALSE]

\* get_server: the list after the call and the address returned
get_server_lb(b) ==
    [b |-> [b EXCEPT !.current = (b.current + 1) % Len(all_servers)],
     server |-> all_servers[b.current + 1]]

get_server_lb2(b) ==
    IF b.healthy_servers = <<>>
    THEN [b |-> b, server |-> None]
    ELSE LET current == (b.current + 1) % Len(b.healthy_servers) IN
         [b |-> [b EXCEPT !.current = current],
          server |-> b.healthy_servers[current + 1]]

get_server(b) == IF b.impl = "lb" THEN get_server_lb(b) ELSE get_server_lb2(b)

\* one client connection in handle_client_connection: where the handler is,
\* the two sockets, the address get_server gave, the number of connects made
\* to a backend, whether bytes of a backend response reached the client, and
\* the status of the error reply the handler wrote (0: none)
NoConn == [pc |-> "idle", client_socket |-> "none", backend_socket |-> "none",
           backend_address |-> None, attempts |-> 0, relayed |-> FALSE,
           error |-> 0]

\* send_error_response followed by the way to the finally clause
send_error_response(c, status_code) ==
    [c EXCEPT !.error = status_code, !.pc = "finally"]

\* the finally clause of handle_client_connection
finally_client_only(c) ==
    [c EXCEPT !.client_socket = "closed", !.pc = "done"]

finally(c) ==
    [c EXCEPT !.client_socket = "closed",
              !.backend_socket = IF @ = "none" THEN "none" ELSE "closed",
              !.pc = "done"]

ServerUnchanged ==
    UNCHANGED <<variant, players, order, games, game_history, state_file,
                reply, last, nCreated, lock, threads>>

\* TicTacToeLoadBalancer.start_server
StartServer(impl) ==
    /\ backend_list.impl = None
    /\ backend_list' = [backend_list EXCEPT !.impl = impl]
    /\ ServerUnchanged
    /\ UNCHANGED <<probe, reachable, picks, conn>>

\* a backend stops accepting connections
BackendDown(server) ==
    /\ backend_list.impl # None
    /\ server \in reachable
    /\ Len(all_servers) - Cardinality(reachable) < MaxDown
    /\ reachable' = reachable \ {server}
    /\ ServerUnchanged
    /\ UNCHANGED <<backend_list, probe, picks, conn>>

\* the list the last finished probe gave
LiveSet ==
    IF backend_list.impl = "lb2" THEN backend_list.healthy_servers
    ELSE probe.healthy_servers

\* handle_client_connection up to get_server: the backend one accepted client
\* connection is sent to; with no backend lb2.py answers 503 and returns
HandleClient ==
    LET r == get_server(backend_list)
        c == [NoConn EXCEPT !.client_socket = "open",
                            !.backend_address = r.server]
    IN
    /\ backend_list.impl # None
    /\ conn.pc \in {"idle", "done"}
    /\ Len(picks) < MaxPicks
    /\ backend_list' = r.b
    /\ picks' = Append(picks, [server |-> r.server, reachable |-> reachable,
                               live |-> LiveSet, completed |-> probe.completed,
                               current |-> r.b.current, outcome |-> None])
    /\ conn' = IF r.server = None THEN send_error_response(c, 503)
               ELSE [c EXCEPT !.pc = "connect"]
    /\ ServerUnchanged
    /\ UNCHANGED <<probe, reachable>>

\* what connect to the selected address can give
ConnectOutcomes ==
    IF conn.backend_address \in reachable THEN {"ok", "timeout"}
    ELSE {"refused", "timeout"}

\* backend_socket = socket.socket(...); backend_socket.connect(backend_address)
BackendConnect(outcome) ==
    LET c == [conn EXCEPT !.backend_socket = "open", !.attempts = @ + 1] IN
    /\ conn.pc = "connect"
    /\ outcome \in ConnectOutcomes
    /\ conn' =
          CASE outcome = "ok" ->
                  [c EXCEPT !.pc = IF backend_list.impl = "lb" THEN "relay"
                                   ELSE "client_recv"]
            [] outcome = "refused" ->
                  send_error_response(c, IF backend_list.impl = "lb" THEN 503
                                         ELSE 502)
            [] outcome = "timeout" ->
                  IF backend_list.impl = "lb" THEN [c EXCEPT !.pc = "finally"]
                  ELSE send_error_response(c, 502)
    /\ picks' = [picks EXCEPT ![Len(picks)].outcome = outcome]
    /\ ServerUnchanged
    /\ UNCHANGED <<backend_list, probe, reachable>>

\* lb2.py: client_request = client_socket.recv(4096)
ClientRecv(outcome) ==
    /\ conn.pc = "client_recv"
    /\ conn' = CASE outcome = "data" -> [conn EXCEPT !.pc = "backend_send"]
                 [] outcome = "empty" -> [conn EXCEPT !.pc = "finally"]
                 [] outcome = "reset" -> send_error_response(conn, 502)
    /\ ServerUnchanged
    /\ UNCHANGED <<backend_list, probe, reachable, picks>>

\* lb2.py: backend_socket.sendall(client_request)
BackendSend(outcome) ==
    /\ conn.pc = "backend_send"
    /\ conn' = CASE outcome = "ok" -> [conn EXCEPT !.pc = "backend_recv"]
                 [] outcome \in {"timeout", "reset"} ->
                       send_error_response(conn, 502)
                 [] outcome = "error" -> send_error_response(conn, 500)
    /\ ServerUnchanged
    /\ UNCHANGED <<backend_list, probe, reachable, picks>>

\* lb2.py: backend_response = backend_socket.recv(4096) in the while loop
BackendRecv(outcome) ==
    /\ conn.pc = "backend_recv"
    /\ conn' = CASE outcome = "data" -> [conn EXCEPT !.pc = "client_send"]
                 [] outcome \in {"empty", "timeout"} ->
                       [conn EXCEPT !.pc = "finally"]
                 [] outcome = "reset" -> send_error_response(conn, 502)
    /\ ServerUnchanged
    /\ UNCHANGED <<backend_list, probe, reachable, picks>>

\* lb2.py: client_socket.sendall(backend_response)
ClientSend(outcome) ==
    /\ conn.pc = "client_send"
    /\ conn' = CASE outcome = "ok" ->
                       [conn EXCEPT !.pc = "backend_recv", !.relayed = TRUE]
                 [] outcome = "reset" -> send_error_response(conn, 502)
                 [] outcome = "error" -> send_error_response(conn, 500)
    /\ ServerUnchanged
    /\ UNCHANGED <<backend_list, probe, reachable, picks>>

\* lb.py: the two proxy_data threads, started and joined; each leaves its
\* loop when a side closes, resets or fails, and closes both sockets
proxy_data(outcome) ==
    /\ conn.pc = "relay"
    /\ conn' = [conn EXCEPT !.pc = "finally",
                            !.relayed = (outcome = "closed"),
                            !.client_socket = "closed",
                            !.backend_socket = "closed"]
    /\ ServerUnchanged
    /\ UNCHANGED <<backend_list, probe, reachable, picks>>

\* the finally clause, and the end of the handler
Finally ==
    /\ conn.pc = "finally"
    /\ conn' = finally(conn)
    /\ ServerUnchanged
    /\ UNCHANGED <<backend_list, probe, reachable, picks>>

\* health_check_loop wakes up and starts a probe with an empty local list
HealthCheckLoop ==
    /\ backend_list.impl # None
    /\ probe.i = 0
    /\ probe' = [probe EXCEPT !.i = 1, !.live_servers = <<>>]
    /\ ServerUnchanged
    /\ UNCHANGED <<backend_list, reachable, picks, conn>>

\* one round of the probe's loop: connect_ex to the next address
ConnectEx ==
    LET server == all_servers[probe.i] IN
    /\ probe.i \in DOMAIN all_servers
    /\ probe' = [probe EXCEPT
                    !.i = @ + 1,
                    !.live_servers = IF server \in reachable
                                     THEN Append(@, server) ELSE @]
    /\ ServerUnchanged
    /\ UNCHANGED <<backend_list, reachable, picks, conn>>

\* the end of the probe: lb2.py swaps the list in under the lock, lb.py
\* returns it to health_check_loop, which keeps it in a local and logs it
UpdateHealthStatus ==
    /\ probe.i = Len(all_servers) + 1
    /\ backend_list' =
          IF backend_list.impl = "lb2"
          THEN [backend_list EXCEPT !.healthy_servers = probe.live_servers]
          ELSE backend_list
    /\ probe' = [i |-> 0, live_servers |-> <<>>,
                 healthy_servers |-> IF backend_list.impl = "lb"
                                     THEN probe.live_servers ELSE <<>>,
                 completed |-> TRUE]
    /\ ServerUnchanged
    /\ UNCHANGED <<reachable, picks, conn>>

----------------------------------------------------------------------------
(* Specifications *)

NoFile == [games |-> EmptyDict, players |-> EmptyDict,
           game_history |-> EmptyDict]

Init ==
    /\ variant \in Variants
    /\ players = EmptyDict
    /\ order = <<>>
    /\ games = EmptyDict
    /\ game_history = EmptyDict
    /\ state_file = NoFile
    /\ reply = NoReply
    /\ last = NoLast("idle")
    /\ nCreated = 0
    /\ lock = None
    /\ threads = [t \in Threads |-> NoThread(IF t = ReaperId THEN "sleep" ELSE "idle")]
    /\ backend_list = NoBalancer
    /\ probe = NoProbe
    /\ reachable = {all_servers[i] : i \in DOMAIN all_servers}
    /\ picks = <<>>
    /\ conn = NoConn

Marks(board) == Cardinality({rc \in Cells \X Cells : board[rc[1]][rc[2]] # "."})

\* the stored game a request of pid for game_id would act on, if any
Stored(game_id) == game_id \in DOMAIN games

\* the game pid's game_id refers to, if it is stored
GameOf(pid) ==
    IF pid \in DOMAIN players /\ players[pid].game_id \in DOMAIN games
    THEN players[pid].game_id ELSE None

\* bounds of the exploration: a spectator is added while the list is shorter
\* than maxSpectators, a game is created while fewer than maxGames were
MaySpectate(game_id, maxSpectators) ==
    Stored(game_id) => Len(games[game_id].spectators) < maxSpectators

\* player ids are interchangeable: the first to register is p1, then p2, p3
PlayerOrder == <<"p1", "p2", "p3">>
MayRegister(pid) ==
    \A i \in 1 .. Len(PlayerOrder) :
        PlayerOrder[i] = pid => i <= Len(order) + 1

\* the cells a move is tried on, and two coordinates out of range
MoveInputs(cells) == cells \cup {<<0 - 1, 0>>, <<0, BoardSize>>}

Engine(ids, gids, cells, maxGames, maxSpectators) ==
    \/ \E pid \in ids \cup {EmptyId} : MayRegister(pid) /\ Register(pid)
    \/ ListGames
    \/ \E pid \in ids : History(pid)
    \/ \E pid \in ids, game_id \in gids :
          nCreated < maxGames /\ CreateGame(pid, game_id)
    \/ \E pid \in ids, game_id \in gids \cup {None} : JoinGame(pid, game_id)
    \/ \E pid \in ids, game_id \in gids \cup {None} :
          MaySpectate(game_id, maxSpectators) /\ SpectateGame(pid, game_id)
    \/ \E pid \in ids, rc \in MoveInputs(cells) : MakeMove(pid, rc[1], rc[2])
    \/ \E pid \in ids : GetState(pid)
    \/ \E pid \in ids : LeaveGame(pid)
    \/ Close

\* the life cycle: three players, one game id that is used again, moves on
\* one cell only
LifeCells == {<<1, 1>>}

Next == Engine(PlayerIds, {"g1"}, LifeCells, MaxGames, MaxSpectators)

Spec == Init /\ [][Next]_vars

\* play: two players, one game on the whole board
PlayIds == {"p1", "p2"}

NextPlay ==
    \/ \E pid \in PlayIds : MayRegister(pid) /\ Register(pid)
    \/ \E pid \in PlayIds : nCreated < PlayGames /\ CreateGame(pid, "g1")
    \/ \E pid \in PlayIds : JoinGame(pid, "g1")
    \/ \E pid \in PlayIds, rc \in MoveInputs(Cells \X Cells) :
          MakeMove(pid, rc[1], rc[2])
    \/ Close

SpecPlay == Init /\ [][NextPlay]_vars

\* play in front of a spectator: three players, one game, the cells of the
\* top row and of the diagonal
WatchCells == {<<0, 0>>, <<0, 1>>, <<0, 2>>, <<1, 1>>, <<2, 2>>}

NextWatch == Engine(PlayerIds, {"g1"}, WatchCells, PlayGames, MaxSpectators)

SpecWatch == Init /\ [][NextWatch]_vars

\* the end of a game in front of a spectator, on the whole board: p1 creates
\* the game, p2 joins it, p3 watches it, and any of them tries to move
NextEnd ==
    \/ \E pid \in PlayerIds : MayRegister(pid) /\ Register(pid)
    \/ nCreated < PlayGames /\ CreateGame("p1", "g1")
    \/ JoinGame("p2", "g1")
    \/ MaySpectate("g1", MaxSpectators) /\ SpectateGame("p3", "g1")
    \/ \E pid \in PlayerIds, rc \in Cells \X Cells :
          MakeMove(pid, rc[1], rc[2])
    \/ Close

SpecEnd == Init /\ [][NextEnd]_vars

\* presence: time passes and the reaper runs; two players, one game, one cell
NextTimed ==
    \/ Engine({"p1", "p2"}, {"g1"}, {<<1, 1>>}, PlayGames, MaxSpectators)
    \/ Elapse
    \/ ReaperTick

SpecTimed == Init /\ [][NextTimed]_vars

\* a watched game under the clock: p1 creates the game, p2 joins it, p3
\* watches it; they move on the top row and the next two cells, leave, fall
\* silent, and the reaper runs
ReapCells == {<<0, 0>>, <<0, 1>>, <<0, 2>>, <<1, 0>>, <<1, 1>>}

NextReap ==
    \/ \E pid \in PlayerIds : MayRegister(pid) /\ Register(pid)
    \/ nCreated < PlayGames /\ CreateGame("p1", "g1")
    \/ JoinGame("p2", "g1")
    \/ MaySpectate("g1", MaxSpectators) /\ SpectateGame("p3", "g1")
    \/ \E pid \in PlayerIds, rc \in ReapCells : MakeMove(pid, rc[1], rc[2])
    \/ \E pid \in PlayerIds : LeaveGame(pid)
    \/ Close
    \/ Pass(TimeoutThreshold + 1)
    \/ ReaperTick

SpecReap == Init /\ [][NextReap]_vars

\* persistence: the process restarts from its state file, which at times can
\* be neither written nor read, while time passes; p1 creates the one game
\* and p2 joins it
RestartIds == {"p1", "p2"}

NextRestart ==
    \/ \E pid \in RestartIds : MayRegister(pid) /\ Register(pid)
    \/ nCreated < PlayGames /\ CreateGame("p1", "g1")
    \/ JoinGame("p2", "g1")
    \/ \E pid \in RestartIds : MakeMove(pid, 1, 1)
    \/ \E pid \in RestartIds : GetState(pid)
    \/ \E op \in {"register", "create", "move"}, pid \in RestartIds :
          /\ op = "create" => nCreated < PlayGames
          /\ Serve("fail", op, pid, "g1", 1, 1)
    \/ Close
    \/ Elapse
    \/ ReaperTick
    \/ \E readable \in BOOLEAN : Restart(readable)

SpecRestart == Init /\ [][NextRestart]_vars

\* the connection server: two connections at a time and the reaper, one
\* player, one game, while time passes
ThreadReqs ==
    {Asked("register", "p1", None), Asked("create", "p1", "g1"),
     Asked("state", "p1", None),
     Other("empty"), Other("malformed"), Other("silent"), Other("reset")}

NextThreads ==
    \/ \E w \in Workers : Accept(w)
    \/ \E w \in Workers, q \in ThreadReqs :
          /\ q.op = "create" => nCreated < PlayGames
          /\ Recv(w, q)
    \/ \E w \in Workers : Acquire(w)
    \/ \E w \in Workers : Touch(w)
    \/ \E w \in Workers : Route(w)
    \/ \E t \in Threads : Release(t)
    \/ \E w \in Workers, sent \in BOOLEAN : Send(w, sent)
    \/ \E w \in Workers : CloseSocket(w)
    \/ ReaperAcquire
    \/ Reap
    \/ Elapse
    \/ Close

SpecThreads == Init /\ [][NextThreads]_vars

\* the load balancer in front of three backends that may stop, with client
\* connections that are refused or end at once
NextBalancer ==
    \/ \E impl \in Balancers : StartServer(impl)
    \/ \E i \in DOMAIN all_servers : BackendDown(all_servers[i])
    \/ HandleClient
    \/ \E outcome \in {"ok", "refused"} : BackendConnect(outcome)
    \/ ClientRecv("empty")
    \/ proxy_data("closed")
    \/ Finally
    \/ HealthCheckLoop
    \/ ConnectEx
    \/ UpdateHealthStatus

SpecBalancer == Init /\ [][NextBalancer]_vars

\* the lobby: three players who create, join, watch and leave games under
\* two game ids, each of which uuid4 may give again; no moves
NextLobby ==
    \/ \E pid \in PlayerIds \cup {EmptyId} : MayRegister(pid) /\ Register(pid)
    \/ ListGames
    \/ \E pid \in PlayerIds \cup {EmptyId}, game_id \in GameIds :
          nCreated < MaxGames /\ CreateGame(pid, game_id)
    \/ \E pid \in PlayerIds, game_id \in GameIds \cup {None} :
          JoinGame(pid, game_id)
    \/ \E pid \in PlayerIds, game_id \in GameIds :
          MaySpectate(game_id, MaxSpectators) /\ SpectateGame(pid, game_id)
    \/ \E pid \in PlayerIds : LeaveGame(pid)
    \/ Close

SpecLobby == Init /\ [][NextLobby]_vars

\* the audience: p1 creates the one game, p2 joins it, anyone may watch it
\* while its spectator list holds fewer than two entries; they move on the
\* middle cell, leave, fall silent, and the reaper runs
MaxAudience == 2

NextAudience ==
    \/ \E pid \in PlayerIds : MayRegister(pid) /\ Register(pid)
    \/ nCreated < PlayGames /\ CreateGame("p1", "g1")
    \/ JoinGame("p2", "g1")
    \/ \E pid \in PlayerIds :
          MaySpectate("g1", MaxAudience) /\ SpectateGame(pid, "g1")
    \/ \E pid \in PlayerIds : MakeMove(pid, 1, 1)
    \/ \E pid \in PlayerIds : GetState(pid)
    \/ \E pid \in PlayerIds : LeaveGame(pid)
    \/ Close
    \/ Pass(TimeoutThreshold + 1)
    \/ ReaperTick

SpecAudience == Init /\ [][NextAudience]_vars

ProxyPicks == 2

\* the proxying of a few client connections with every outcome of every step
NextProxy ==
    \/ \E impl \in Balancers : StartServer(impl)
    \/ \E i \in DOMAIN all_servers : BackendDown(all_servers[i])
    \/ Len(picks) < ProxyPicks /\ HandleClient
    \/ \E outcome \in {"ok", "refused", "timeout"} : BackendConnect(outcome)
    \/ \E outcome \in {"data", "empty", "reset"} : ClientRecv(outcome)
    \/ \E outcome \in {"ok", "timeout", "reset", "error"} : BackendSend(outcome)
    \/ \E outcome \in {"data", "empty", "timeout", "reset"} : BackendRecv(outcome)
    \/ \E outcome \in {"ok", "reset", "error"} : ClientSend(outcome)
    \/ \E outcome \in {"closed", "reset", "error"} : proxy_data(outcome)
    \/ Finally
    \/ HealthCheckLoop
    \/ ConnectEx
    \/ UpdateHealthStatus

SpecProxy == Init /\ [][NextProxy]_vars

\* one worker of lb2.py's pool running handle_client_connection, with the
\* waits the code bounds: every call on backend_socket returns within its 5 s
\* timeout, sendall to the client returns, the finally clause runs, and a
\* backend's response ends (it closes, resets or falls silent). recv on
\* client_socket, which has no timeout, returns only when the client sends,
\* closes or resets, so no fairness is assumed for it.
NextHandler ==
    \/ StartServer("lb2")
    \/ \E i \in DOMAIN all_servers : BackendDown(all_servers[i])
    \/ Len(picks) < ProxyPicks /\ HandleClient
    \/ \E outcome \in {"ok", "refused", "timeout"} : BackendConnect(outcome)
    \/ \E outcome \in {"data", "empty", "reset"} : ClientRecv(outcome)
    \/ \E outcome \in {"ok", "timeout", "reset", "error"} : BackendSend(outcome)
    \/ \E outcome \in {"data", "empty", "timeout", "reset"} : BackendRecv(outcome)
    \/ \E outcome \in {"ok", "reset", "error"} : ClientSend(outcome)
    \/ Finally
    \/ HealthCheckLoop
    \/ ConnectEx
    \/ UpdateHealthStatus

FairHandler ==
    /\ WF_vars(\E outcome \in {"ok", "refused", "timeout"} : BackendConnect(outcome))
    /\ WF_vars(\E outcome \in {"ok", "timeout", "reset", "error"} : BackendSend(outcome))
    /\ WF_vars(\E outcome \in {"data", "empty", "timeout", "reset"} : BackendRecv(outcome))
    /\ SF_vars(\E outcome \in {"empty", "timeout", "reset"} : BackendRecv(outcome))
    /\ WF_vars(\E outcome \in {"ok", "reset", "error"} : ClientSend(outcome))
    /\ WF_vars(Finally)

SpecHandler == Init /\ [][NextHandler]_vars /\ FairHandler

----------------------------------------------------------------------------
(* Properties *)

Replied(status) == "status" \in DOMAIN reply.body /\ reply.body.status = status
RepliedNext(status) ==
    "status" \in DOMAIN reply'.body /\ reply'.body.status = status

\* the step is a request op of pid
Did(op, pid) == last'.op = op /\ last'.pid = pid

C1Create(pid, gid) ==
    (Did("create", pid) /\ CreateGame(pid, gid) /\ RepliedNext("OK")) =>
        /\ games'[gid].players = <<pid>>
        /\ games'[gid].status = "waiting"

C1Join(pid, gid) ==
    (Did("join", pid) /\ JoinGame(pid, gid) /\ RepliedNext("OK")) =>
        /\ gid \in DOMAIN games
        /\ games[gid].status = "waiting"
        /\ Len(games[gid].players) = 1
        /\ ~ InList(pid, games[gid].players)
        /\ games'[gid].status = "playing"
        /\ games'[gid].players = <<games[gid].players[1], pid>>
        /\ games[gid].players[1] # pid

\* between its creation and the join, a waiting game keeps its creator
C1Keep(gid) ==
    (/\ gid \in DOMAIN games /\ gid \in DOMAIN games'
     /\ games[gid].status = "waiting"
     /\ ~ (last'.op = "create" /\ RepliedNext("OK"))) =>
        games'[gid].players[1] = games[gid].players[1]

AllMoves == MoveInputs(Cells \X Cells)

\* the request is a move of pid that wrote a mark
Wrote(pid, row, col) ==
    /\ Did("move", pid)
    /\ MakeMove(pid, row, col)
    /\ GameOf(pid) # None
    /\ GameOf(pid) \in DOMAIN games'
    /\ games'[GameOf(pid)].board # games[GameOf(pid)].board

C2Bad(pid, row, col) ==
    LET g == GameOf(pid) IN
    \/ row \notin Cells
    \/ col \notin Cells
    \/ /\ g # None
       /\ \/ games[g].board[row][col] # "."
          \/ games[g].players[games[g].current_turn_idx + 1] # pid

\* C2: a makeMove on a marked cell, by a player who is not at turnIndex, or
\* with row or col outside 0..2 is answered with ERROR and leaves every game
\* (board, turnIndex, status, winner) and every history list as they were.
C2_BadMoveRejected ==
    [][\A pid \in PlayerIds, rc \in AllMoves :
          (/\ Did("move", pid)
           /\ MakeMove(pid, rc[1], rc[2])
           /\ C2Bad(pid, rc[1], rc[2])) =>
              /\ RepliedNext("ERROR")
              /\ games' = games
              /\ game_history' = game_history]_vars

C2_Witness ==
    /\ last.op = "move"
    /\ Replied("ERROR")
    /\ reply.body.message = "Invalid move"
    /\ GameOf(last.pid) # None
    /\ Marks(games[GameOf(last.pid)].board) = BoardSize * BoardSize - 1

\* the 8 lines of the board: 3 rows, 3 columns, 2 diagonals
EightLines ==
    {{<<0, 0>>, <<0, 1>>, <<0, 2>>}, {<<1, 0>>, <<1, 1>>, <<1, 2>>},
     {<<2, 0>>, <<2, 1>>, <<2, 2>>}, {<<0, 0>>, <<1, 0>>, <<2, 0>>},
     {<<0, 1>>, <<1, 1>>, <<2, 1>>}, {<<0, 2>>, <<1, 2>>, <<2, 2>>},
     {<<0, 0>>, <<1, 1>>, <<2, 2>>}, {<<0, 2>>, <<1, 1>>, <<2, 0>>}}

HasLine(board, symbol) ==
    \E l \in EightLines : \A rc \in l : board[rc[1]][rc[2]] = symbol

\* the newest entry of pid's history list
Newest(history, pid) == history[pid][Len(history[pid])]

\* pid's list has grown by exactly one entry, with this winner and reason
Gained(pid, winner, reason) ==
    /\ pid \in DOMAIN game_history'
    /\ Len(game_history'[pid]) = Len(Get(game_history, pid, <<>>)) + 1
    /\ SubSeq(game_history'[pid], 1, Len(game_history'[pid]) - 1)
          = Get(game_history, pid, <<>>)
    /\ Newest(game_history', pid).winner = winner
    /\ Newest(game_history', pid).reason = reason

C3Win(pid, row, col) ==
    LET g == GameOf(pid) IN
    Wrote(pid, row, col) =>
        /\ HasLine(games'[g].board, players[pid].symbol) =>
              /\ games'[g].status = "finished"
              /\ games'[g].winner = pid
              /\ \A i \in 1 .. Len(games[g].players) :
                    Gained(games[g].players[i], pid, "win")
        /\ (games'[g].status = "finished" /\ games'[g].winner # "draw") =>
              games'[g].winner = pid

\* C3: a successful makeMove that gives the mover three marks in one of the 8
\* lines finishes the game with the mover as winner and reason win; the winner
\* recorded by a winning move is never the player who did not move.
C3_LineWins ==
    [][\A pid \in PlayerIds, rc \in AllMoves : C3Win(pid, rc[1], rc[2])]_vars

C3_Witness ==
    /\ last.op = "move"
    /\ \E g \in DOMAIN games :
          /\ games[g].status = "finished"
          /\ games[g].winner = last.pid
          /\ games[g].players[2] = last.pid
          /\ HasLine(games[g].board, "O")
          /\ Newest(game_history, last.pid).reason = "win"

C4Full(pid, row, col) ==
    LET g == GameOf(pid) IN
    (Wrote(pid, row, col) /\ Marks(games'[g].board) = BoardSize * BoardSize) =>
        /\ games'[g].status = "finished"
        /\ IF HasLine(games'[g].board, "X") \/ HasLine(games'[g].board, "O")
           THEN /\ games'[g].winner = pid
                /\ \A i \in 1 .. Len(games[g].players) :
                      Gained(games[g].players[i], pid, "win")
           ELSE /\ games'[g].winner = "draw"
                /\ \A i \in 1 .. Len(games[g].players) :
                      Gained(games[g].players[i], "draw", "draw")

\* C4: the makeMove that fills the last empty cell without making a line of 3
\* ends the game as a draw (finished, winner "draw", an entry with reason
\* draw); if it also completes a line the game is recorded as a win.
C4_FullBoard ==
    [][\A pid \in PlayerIds, rc \in AllMoves : C4Full(pid, rc[1], rc[2])]_vars

C4_Witness ==
    /\ last.op = "move"
    /\ \E g \in DOMAIN games :
          /\ games[g].status = "finished"
          /\ games[g].winner = "draw"
          /\ Marks(games[g].board) = BoardSize * BoardSize
          /\ ~ HasLine(games[g].board, "X")
          /\ ~ HasLine(games[g].board, "O")
          /\ Newest(game_history, last.pid).reason = "draw"

\* the board of the scenario: X on (0,0) and (0,1), O on (1,1) and, once the
\* fourth move is made, on (2,2)
C5Board(fourth) ==
    [r \in Cells |-> [c \in Cells |->
        IF <<r, c>> \in {<<0, 0>>, <<0, 1>>} THEN "X"
        ELSE IF <<r, c>> = <<1, 1>> \/ (fourth /\ <<r, c>> = <<2, 2>>) THEN "O"
        ELSE "."]]

\* the fourth move of the scenario: B plays (2,2) on the board of the first three
C5Fourth(pid) ==
    /\ Wrote(pid, 2, 2)
    /\ games[GameOf(pid)].board = C5Board(FALSE)
    /\ games[GameOf(pid)].players[2] = pid

\* C5 as the specification states it: the fourth move of A (0,0), B (1,1),
\* A (0,1), B (2,2) finishes the game with winner B and both histories gain one
\* entry with reason win.
C5_FourthMoveWins ==
    [][\A pid \in PlayerIds :
          C5Fourth(pid) =>
              /\ games'[GameOf(pid)].status = "finished"
              /\ games'[GameOf(pid)].winner = pid
              /\ \A i \in 1 .. 2 :
                    Gained(games[GameOf(pid)].players[i], pid, "win")]_vars

\* C5: after A (0,0), B (1,1), A (0,1), B (2,2) no line is complete, (0,0)
\* being A's: the game is still playing with no winner, the turn is A's again
\* and no history list has changed.
C5_FourthMoveNoLine ==
    [][\A pid \in PlayerIds :
          C5Fourth(pid) =>
              /\ games'[GameOf(pid)].board = C5Board(TRUE)
              /\ ~ HasLine(games'[GameOf(pid)].board, "O")
              /\ games'[GameOf(pid)].status = "playing"
              /\ games'[GameOf(pid)].winner = None
              /\ games'[GameOf(pid)].current_turn_idx = 0
              /\ game_history' = game_history
              /\ RepliedNext("OK")]_vars

C5_Witness ==
    /\ last.op = "move"
    /\ Replied("OK")
    /\ \E g \in DOMAIN games :
          /\ games[g].board = C5Board(TRUE)
          /\ games[g].players[2] = last.pid
          /\ games[g].status = "playing"

\* C6: every makeMove that writes a mark is answered with status OK, a message
\* and the game state, the move that ends the game included: its reply carries
\* the final board, the status finished and the winner.
C6_MoveReplies ==
    [][\A pid \in PlayerIds, rc \in AllMoves :
          Wrote(pid, rc[1], rc[2]) =>
              /\ RepliedNext("OK")
              /\ "message" \in DOMAIN reply'.body
              /\ "game_state" \in DOMAIN reply'.body
              /\ reply'.body.game_state.board = games'[GameOf(pid)].board
              /\ reply'.body.game_state.game_status = games'[GameOf(pid)].status
              /\ reply'.body.game_state.winner = games'[GameOf(pid)].winner]_vars

\* the players and spectators of a game
Involved(g) == games[g].players \o games[g].spectators

Ended(board) ==
    \/ HasLine(board, "X")
    \/ HasLine(board, "O")
    \/ Marks(board) = BoardSize * BoardSize

C7Step(pid, row, col) ==
    LET g == GameOf(pid)
        touched == [players EXCEPT ![pid].last_seen = 0,
                                   ![pid].connection_status = "online"]
    IN
    Wrote(pid, row, col) =>
        IF Ended(games'[g].board)
        THEN /\ games'[g].status = "finished"
             /\ \A i \in 1 .. Len(Involved(g)) :
                   LET p == Involved(g)[i] IN
                   /\ Gained(p, games'[g].winner,
                             IF games'[g].winner = "draw" THEN "draw" ELSE "win")
                   /\ Newest(game_history', p) = Newest(game_history', pid)
                   /\ players'[p].game_id = None
                   /\ players'[p].symbol = None
             /\ \A p \in DOMAIN game_history' :
                   InList(p, Involved(g)) \/ (/\ p \in DOMAIN game_history
                                              /\ game_history'[p] = game_history[p])
        ELSE /\ games' = [games EXCEPT
                             ![g].board[row][col] = players[pid].symbol,
                             ![g].current_turn_idx = 1 - @]
             /\ game_history' = game_history
             /\ players' = touched

\* C7: the makeMove that ends a game (win or draw) finishes it, appends one
\* entry to the history of every participant and every current spectator and
\* clears their gameId and symbol, all in that step; a successful move that
\* does not end the game changes only the written cell and turnIndex.
C7_EndInOneStep ==
    [][\A pid \in PlayerIds, rc \in AllMoves : C7Step(pid, rc[1], rc[2])]_vars

C7_Witness ==
    /\ last.op = "move"
    /\ \E g \in DOMAIN games :
          /\ games[g].status = "finished"
          /\ games[g].winner = "draw"
          /\ games[g].spectators = <<"p3">>
          /\ "p3" \in DOMAIN game_history
          /\ Newest(game_history, "p3").reason = "draw"
          /\ players["p3"].game_id = None
          /\ players[last.pid].game_id = None

\* the request is a leave of pid, a participant of a playing game
C8Leaves(pid) ==
    /\ Did("leave", pid)
    /\ LeaveGame(pid)
    /\ GameOf(pid) # None
    /\ games[GameOf(pid)].status = "playing"
    /\ InList(pid, games[GameOf(pid)].players)

\* a history list got a new entry with this reason
Recorded(reason) ==
    \E p \in DOMAIN game_history' :
        /\ Len(game_history'[p]) > Len(Get(game_history, p, <<>>))
        /\ Newest(game_history', p).reason = reason

\* C8: when a participant of a playing game leaves through the leave request,
\* the other participant is the winner and one entry with reason forfeit is
\* recorded; the reason is disconnect only when the reaper made the player leave.
C8_LeaveIsForfeit ==
    [][/\ \A pid \in PlayerIds :
             C8Leaves(pid) =>
                 LET g == GameOf(pid)
                     other == FirstOther(games[g].players, pid) IN
                 /\ games'[g].status = "finished"
                 /\ games'[g].winner = other
                 /\ Gained(pid, other, "forfeit")
                 /\ Gained(other, other, "forfeit")
       /\ Recorded("disconnect") => last'.op = "reaper"]_vars

\* the state a step leads to
StateNext == [players |-> players', order |-> order', games |-> games',
              game_history |-> game_history', state_file |-> state_file',
              disk |-> "ok", failed |-> FALSE]

C9Leave(pid) ==
    LET g == GameOf(pid) IN
    (/\ Did("leave", pid)
     /\ LeaveGame(pid)
     /\ g # None
     /\ games[g].status = "waiting"
     /\ games[g].players = <<pid>>) =>
        /\ RepliedNext("OK")
        /\ g \notin DOMAIN games'
        /\ \A a \in get_available_games(StateNext).available_games :
              a.game_id # g
        /\ game_history' = game_history
        /\ players'[pid].game_id = None
        /\ players'[pid].symbol = None
        /\ \A gid \in GameIds :
              create_game(StateNext, pid, gid).body.status = "OK"
        /\ \A other \in DOMAIN players' \ {pid}, gid \in GameIds :
              LET c == create_game(StateNext, other, gid) IN
              c.body.status = "OK" =>
                  join_game(c.s, variant, pid, gid).body.status = "OK"

\* C9: when the creator of a waiting game, still its only player, leaves, the
\* game is deleted and listed no more, no history entry is made for anyone and
\* the creator's gameId and symbol are cleared, so that a create or a join of
\* theirs succeeds.
C9_SoleCreatorLeaves ==
    [][\A pid \in PlayerIds : C9Leave(pid)]_vars

C9_Witness ==
    /\ last.op = "leave"
    /\ Replied("OK")
    /\ nCreated = 1
    /\ order = <<last.pid>>
    /\ games = EmptyDict
    /\ game_history = EmptyDict
    /\ players[last.pid].game_id = None

C10Again(pid) ==
    (/\ Did("register", pid)
     /\ Register(pid)
     /\ pid \in DOMAIN players) =>
        /\ RepliedNext("OK")
        /\ order' = order
        /\ players' = [players EXCEPT ![pid].last_seen = 0,
                                      ![pid].connection_status = "online"]
        /\ games' = games
        /\ game_history' = game_history

C10Empty ==
    (Did("register", EmptyId) /\ Register(EmptyId)) =>
        /\ RepliedNext("ERROR")
        /\ UNCHANGED <<players, order, games, game_history, state_file>>

\* C10: register on a registered id makes no second record and leaves the
\* player's gameId and symbol as they were: it refreshes lastSeen and sets the
\* status to online, nothing else; register with an empty id is an error and
\* changes nothing.
C10_RegisterAgain ==
    [][(\A pid \in PlayerIds : C10Again(pid)) /\ C10Empty]_vars

C10_Witness ==
    /\ last.op = "register"
    /\ Replied("OK")
    /\ players[last.pid].game_id # None
    /\ players[last.pid].symbol = "O"
    /\ \E p \in DOMAIN players : players[p].connection_status = "offline"

C11NoGame(pid) ==
    (/\ Did("leave", pid)
     /\ LeaveGame(pid)
     /\ pid \in DOMAIN players
     /\ players[pid].game_id = None) =>
        /\ RepliedNext("OK")
        /\ games' = games
        /\ game_history' = game_history
        /\ DOMAIN players' = DOMAIN players
        /\ \A p \in DOMAIN players :
              /\ players'[p].game_id = players[p].game_id
              /\ players'[p].symbol = players[p].symbol

\* a second leave right after this one would change nothing
C11Twice(pid) ==
    (Did("leave", pid) /\ LeaveGame(pid)) =>
        LET again == process_request(StateNext, variant, "leave", pid, None,
                                     NoRow, NoRow)
        IN  /\ again.s = StateNext
            /\ again.body = reply'.body

\* C11: leaveGame by a registered player who holds no game is answered with
\* success and changes no game, no history list and no player's gameId or
\* symbol; a second leaveGame right after a first leaves the state of the first.
C11_LeaveNoGame ==
    [][\A pid \in PlayerIds : C11NoGame(pid) /\ C11Twice(pid)]_vars

C11_Witness ==
    /\ last.op = "leave"
    /\ Replied("OK")
    /\ variant = "server"
    /\ nCreated = 1
    /\ game_history = EmptyDict
    /\ players[last.pid].game_id = None
    /\ \E g \in DOMAIN games :
          /\ games[g].status = "waiting"
          /\ games[g].players # <<last.pid>>

\* the step is a pass of the reaper
Reaped == last'.op = "reaper" /\ ReaperTick

\* pid holds a stored game, is online and was last seen more than 10 s ago
C12Silent(pid) ==
    /\ pid \in DOMAIN players
    /\ GameOf(pid) # None
    /\ players[pid].connection_status = "online"
    /\ players[pid].last_seen > OfflineThreshold

\* the full-reaping variant is about to force a participant of g out
C12Forced(g) ==
    /\ variant = "server"
    /\ \E p \in DOMAIN players :
          players[p].game_id = g /\ players[p].last_seen > TimeoutThreshold

C12Flip(pid) ==
    LET g == GameOf(pid) IN
    (Reaped /\ C12Silent(pid)) =>
        /\ players'[pid].connection_status = "offline"
        /\ \A opp \in DOMAIN players' \ {pid} :
              (players'[opp].game_id = g /\ InList(pid, games'[g].players)) =>
                  get_game_state(StateNext, variant, opp)
                      .game_state.player_statuses[pid] = "offline"
        /\ C12Forced(g) \/ games' = games

\* C12: a player who holds a gameId, is online and was last seen more than
\* 10 s ago is offline after the next reaper tick, the opponent's getState then
\* reports the player offline, and the flip leaves the game as it was.
C12_SilentGoesOffline ==
    [][\A pid \in PlayerIds : C12Flip(pid)]_vars

\* the step is a request that carries the id of the registered player pid
C13Asks(pid) ==
    /\ last'.op \in Ops \ {"games"}
    /\ last'.pid = pid
    /\ pid \in DOMAIN players

C13Touch(pid) ==
    C13Asks(pid) =>
        /\ players'[pid].last_seen = 0
        /\ players'[pid].connection_status = "online"
        /\ (last'.op = "state" /\ RepliedNext("OK")
            /\ InList(pid, reply'.body.game_state.players)) =>
              reply'.body.game_state.player_statuses[pid] = "online"
        /\ \A opp \in DOMAIN players' \ {pid} :
              (/\ players'[opp].game_id \in DOMAIN games'
               /\ InList(pid, games'[players'[opp].game_id].players)) =>
                  get_game_state(StateNext, variant, opp)
                      .game_state.player_statuses[pid] = "online"

\* a player goes offline only in a pass of the reaper that finds the last
\* request more than 10 s old
C13Offline(pid) ==
    (/\ pid \in DOMAIN players
     /\ players[pid].connection_status = "online"
     /\ players'[pid].connection_status = "offline") =>
        /\ last'.op = "reaper"
        /\ players[pid].last_seen > OfflineThreshold

\* C13: every request that carries a registered player's id leaves that player
\* with a fresh lastSeen and online, whether it succeeds or not, so that the
\* player's own and the opponent's getState show them online; a player whose
\* last request is not more than 10 s old is never marked offline.
C13_RequestRefreshes ==
    [][\A pid \in PlayerIds : C13Touch(pid) /\ C13Offline(pid)]_vars

C13_Witness ==
    /\ last.op = "move"
    /\ Replied("ERROR")
    /\ last.pid \in DOMAIN players
    /\ players[last.pid].last_seen = 0
    /\ players[last.pid].connection_status = "online"
    /\ GameOf(last.pid) # None
    /\ games[GameOf(last.pid)].status = "playing"
    /\ \E opp \in DOMAIN players :
          /\ opp # last.pid
          /\ players[opp].game_id = players[last.pid].game_id
          /\ players[opp].connection_status = "offline"
          /\ players[opp].last_seen > OfflineThreshold

\* pid is a participant of a playing game and was last seen more than 30 s ago
C14TimedOut(pid) ==
    /\ pid \in DOMAIN players
    /\ GameOf(pid) # None
    /\ games[GameOf(pid)].status = "playing"
    /\ InList(pid, games[GameOf(pid)].players)
    /\ players[pid].last_seen > TimeoutThreshold

C14Forced(pid) ==
    LET g == GameOf(pid)
        opp == FirstOther(games[g].players, pid)
    IN
    (variant = "server" /\ Reaped /\ C14TimedOut(pid)) =>
        /\ games'[g].status = "finished"
        /\ games'[g].winner \in {pid, opp}
        /\ ~ C14TimedOut(opp) => games'[g].winner = opp
        /\ Gained(pid, games'[g].winner, "disconnect")
        /\ Gained(opp, games'[g].winner, "disconnect")
        /\ players'[pid].game_id = None
        /\ players'[pid].symbol = None
        /\ games'[g].board = games[g].board

InEngine(t) == threads[t].pc \in {"locked", "touched", "routed"}

C15Held == \A t \in Threads : InEngine(t) => lock = t

\* a step of a thread that reads or writes players, games, history or the
\* state file is a step of the thread that holds the lock
C15Atomic ==
    (/\ last' = last
     /\ \/ <<players, order, games, game_history, state_file>>'
              # <<players, order, games, game_history, state_file>>
        \/ \E t \in Threads : InEngine(t) /\ threads'[t] # threads[t]) =>
        \E t \in Threads :
            /\ lock = t
            /\ threads'[t] # threads[t]
            /\ \A u \in Threads \ {t} : threads'[u] = threads[u]

Snapshot == [games |-> games, players |-> players,
             game_history |-> game_history]

\* a request has just been answered with a reply of the engine
Completed == last.op \in Ops /\ reply.code = 200

\* C16: after every completed request the persisted snapshot equals the
\* Players (lastSeen and status included), Games and History in memory, every
\* mutating operation having written the full snapshot before it returned.
C16_SnapshotCurrent == Completed => state_file = Snapshot

\* the engine as load_game_state rebuilds it from a save of the engine as it is
Reloaded == load_game_state(save_game_state(State), variant, TRUE)

\* C17: saving the engine state and loading it back gives the same Players,
\* Games and History: every gameId, symbol, status, game field and history
\* list, and every lastSeen equal to the timestamp that was saved.
C17_RoundTrip ==
    /\ Reloaded.games = games
    /\ Reloaded.game_history = game_history
    /\ DOMAIN Reloaded.players = DOMAIN players
    /\ Reloaded.order = order
    /\ \A p \in DOMAIN players :
          /\ Reloaded.players[p].game_id = players[p].game_id
          /\ Reloaded.players[p].symbol = players[p].symbol
          /\ Reloaded.players[p].connection_status = players[p].connection_status
          /\ Reloaded.players[p].last_seen = players[p].last_seen
          /\ Reloaded.players[p].last_seen_us = players[p].last_seen_us

\* the request is op of pid, served while the state file cannot be written
C18Fails(op, pid) == Did(op, pid) /\ Serve("fail", op, pid, "g1", 1, 1)

\* what the same request does when the state file can be written
C18Served(op, pid) == process_request(State, variant, op, pid, "g1", 1, 1)

\* the mutation of the request is in memory
C18Kept(op, pid) ==
    /\ players' = C18Served(op, pid).s.players
    /\ games' = C18Served(op, pid).s.games
    /\ game_history' = C18Served(op, pid).s.game_history

C18Save(op, pid) ==
    (/\ C18Fails(op, pid)
     /\ C18Served(op, pid).body.status = "OK"
     /\ C18Served(op, pid).s.state_file # state_file) =>
        /\ reply'.code = 200
        /\ reply'.body = C18Served(op, pid).body
        /\ C18Kept(op, pid)

C18Load ==
    (last'.op = "restart" /\ Restart(FALSE)) =>
        /\ players' = EmptyDict
        /\ games' = EmptyDict
        /\ game_history' = EmptyDict

\* C18: when the snapshot cannot be written during a mutating operation, the
\* caller still gets that operation's success reply and the mutation stays in
\* memory; when the snapshot cannot be loaded the engine starts with empty
\* Players, Games and History.
C18_SaveFailureNotFatal ==
    [][/\ \A op \in Ops, pid \in PlayerIds : C18Save(op, pid)
       /\ C18Load]_vars

\* the handler of worker w has returned
C19Returned(w) == threads[w].pc = "ended"

\* C19: every accepted connection is closed on every path of its handler
\* (normal reply, empty read, unparseable request, read deadline, exception):
\* no handler returns with its client socket still open.
C19_AlwaysClosed ==
    \A w \in Workers : C19Returned(w) => threads[w].sock = "closed"

\* selection i was made while exactly one backend was unreachable
C20OneDown(i) == Cardinality(picks[i].reachable) = Len(all_servers) - 1

\* C20: with three backends of which one is unreachable, every selection is a
\* backend that is reachable when it is selected, and successive selections
\* alternate between the two remaining backends, whatever the interleaving
\* with the health probe and with the moment the backend stops.
C20_LiveRoundRobin ==
    \A i \in DOMAIN picks :
        C20OneDown(i) =>
            /\ picks[i].server \in picks[i].reachable
            /\ (i > 1 /\ C20OneDown(i - 1)) =>
                   picks[i].server # picks[i - 1].server

\* selection i was made after a health probe had finished
C21Probed(i) == picks[i].completed

\* selection i gave a member of the live set and left the cursor inside it,
\* or found the live set empty and gave no backend
C21Inside(i) ==
    IF picks[i].live = <<>>
    THEN picks[i].server = None
    ELSE /\ picks[i].server \in Range(picks[i].live)
         /\ picks[i].current < Len(picks[i].live)

\* the connection of the newest selection was answered 503 with no connect
C21Unavailable ==
    (/\ picks # <<>>
     /\ C21Probed(Len(picks))
     /\ picks[Len(picks)].live = <<>>
     /\ conn.pc = "done") =>
        /\ conn.error = 503
        /\ conn.attempts = 0
        /\ conn.backend_socket = "none"

\* C21: selection only returns a member of the live set of the most recent
\* finished probe, with the cursor inside that set; with an empty live set it
\* returns no backend, and the client gets a 503 with no backend connection
\* attempted.
C21_SelectsFromLiveSet ==
    /\ \A i \in DOMAIN picks : C21Probed(i) => C21Inside(i)
    /\ C21Unavailable

\* the backend of selection i refused the proxy's connection
C22Refused(i) == picks[i].outcome = "refused"

\* C22: a backend that refused a connection during proxying is taken out of
\* the live set at once, so no later client connection is routed to it.
C22_RefusalReprobes ==
    \A i, j \in DOMAIN picks :
        (i < j /\ C22Refused(i)) => picks[j].server # picks[i].server

\* the handler of the client connection has finished
C23Finished == conn.pc = "done"

\* C23: whichever step of the proxying fails, when the handler finishes the
\* client socket is closed and the backend socket, if one was opened, is
\* closed too.
C23_BothSocketsClosed ==
    C23Finished =>
        /\ conn.client_socket = "closed"
        /\ conn.backend_socket \in {"none", "closed"}

\* a handler that opened a backend socket, failed and has finished
C23_Witness ==
    /\ C23Finished
    /\ conn.backend_socket = "closed"
    /\ conn.error = 502
    /\ backend_list.impl = "lb2"

\* the step is a failure of the selected backend of lb2.py: it refuses or
\* times out on connect, times out or resets while the request is written,
\* or times out or resets before any byte of a response was relayed
C24Fails ==
    /\ backend_list.impl = "lb2"
    /\ \/ \E outcome \in {"refused", "timeout"} : BackendConnect(outcome)
       \/ \E outcome \in {"timeout", "reset"} : BackendSend(outcome)
       \/ \E outcome \in {"timeout", "reset"} :
             ~conn.relayed /\ BackendRecv(outcome)

\* the client was sent a gateway error reply and the handler goes to its end
C24GatewayError == conn'.error \in {502, 503, 504} /\ conn'.pc = "finally"

\* C24: the proxy connects to a backend at most once per client connection;
\* when the selected backend refuses, times out or resets, the client gets a
\* gateway error reply and the request is not sent to another backend.
C24_NoTransparentRetry ==
    [][/\ C24Fails => C24GatewayError
       /\ conn'.attempts <= 1]_vars

\* the step is spectateGame of pid on game_id
C25Asks(pid, game_id) == Did("spectate", pid) /\ SpectateGame(pid, game_id)

\* the caller's game id and every spectator list are as before
C25Untouched(pid) ==
    /\ pid \in DOMAIN players => players'[pid].game_id = players[pid].game_id
    /\ DOMAIN games' = DOMAIN games
    /\ \A g \in DOMAIN games : games'[g].spectators = games[g].spectators

C25Step(pid, game_id) ==
    C25Asks(pid, game_id) =>
        /\ RepliedNext("OK") =>
              /\ game_id \in DOMAIN games
              /\ games[game_id].status \in {"playing", "finished"}
        /\ ~RepliedNext("OK") => C25Untouched(pid)

\* C25: spectateGame succeeds only on a stored game that is playing or
\* finished; on an absent game and on a waiting game it fails, and a failure
\* leaves the caller's game id and every spectator list unchanged.
C25_SpectateNeedsStartedGame ==
    [][\A pid \in PlayerIds, game_id \in GameIds : C25Step(pid, game_id)]_vars

\* the step is createGame of pid, with game_id the id that was drawn
C26Asks(pid, game_id) == Did("create", pid) /\ CreateGame(pid, game_id)

\* pid may create a game: registered, with no game id
C26May(pid) == pid \in DOMAIN players /\ players[pid].game_id = None

\* the game stored under game_id is a new game of pid alone
C26Fresh(pid, game_id) ==
    /\ game_id \in DOMAIN games'
    /\ games'[game_id].status = "waiting"
    /\ games'[game_id].players = <<pid>>
    /\ games'[game_id].symbols = <<<<pid, "X">>>>
    /\ games'[game_id].spectators = <<>>
    /\ games'[game_id].current_turn_idx = 0
    /\ games'[game_id].winner = None
    /\ \A r \in Cells, c \in Cells : games'[game_id].board[r][c] = "."

\* the games stored under the other ids are as before
C26Others(game_id) ==
    /\ DOMAIN games' = DOMAIN games \cup {game_id}
    /\ \A g \in DOMAIN games \ {game_id} : games'[g] = games[g]

C26Step(pid, game_id) ==
    C26Asks(pid, game_id) =>
        IF C26May(pid)
        THEN /\ RepliedNext("OK")
             /\ reply'.body.game_id = game_id
             /\ C26Fresh(pid, game_id)
             /\ C26Others(game_id)
             /\ players'[pid].game_id = game_id
        ELSE /\ RepliedNext("ERROR")
             /\ games' = games

\* C26: createGame of an unregistered player, or of a player who has a game
\* id, fails and creates no game; on success exactly one new game is stored,
\* in status waiting, with the creator as its only player holding X, an empty
\* board and turn index 0, and the creator's game id refers to it.
C26_CreateGame ==
    [][\A pid \in PlayerIds \cup {EmptyId}, game_id \in GameIds :
          C26Step(pid, game_id)]_vars

\* a second game has just been created next to a stored one
C26_Witness ==
    /\ last.op = "create"
    /\ Replied("OK")
    /\ Cardinality(DOMAIN games) = 2

\* the step is joinGame of pid on game_id
C27Asks(pid, game_id) == Did("join", pid) /\ JoinGame(pid, game_id)

\* pid may join game_id: registered with no game id, the game stored and
\* waiting
C27May(pid, game_id) ==
    /\ pid \in DOMAIN players
    /\ players[pid].game_id = None
    /\ game_id \in DOMAIN games
    /\ games[game_id].status = "waiting"

\* the games, the history and every player's game id and symbol are as before
C27Unchanged ==
    /\ games' = games
    /\ game_history' = game_history
    /\ DOMAIN players' = DOMAIN players
    /\ \A p \in DOMAIN players :
          /\ players'[p].game_id = players[p].game_id
          /\ players'[p].symbol = players[p].symbol

C27Step(pid, game_id) ==
    (C27Asks(pid, game_id) /\ ~C27May(pid, game_id)) =>
        RepliedNext("ERROR") /\ C27Unchanged

C27Bounded == \A g \in DOMAIN games : Len(games[g].players) <= 2

\* C27: joinGame fails and changes nothing unless the caller is registered
\* with no game and the target game is stored and waiting; no stored game
\* ever has more than 2 players.
C27_JoinGame ==
    /\ []C27Bounded
    /\ [][\A pid \in PlayerIds, game_id \in GameIds \cup {None} :
             C27Step(pid, game_id)]_vars

\* a third player has just been refused by a game that two players play
C27_Witness ==
    /\ last.op = "join"
    /\ Replied("ERROR")
    /\ last.pid \in DOMAIN players
    /\ players[last.pid].game_id = None
    /\ \E g \in DOMAIN games :
          /\ games[g].status = "playing"
          /\ Len(games[g].players) = 2
          /\ ~InList(last.pid, games[g].players)

\* the history list of player p, empty when p has none
C28List(history, p) == Get(history, p, <<>>)

\* the list of p keeps every entry it had, unaltered, and gains at most one
C28Grows(p) ==
    LET old == C28List(game_history, p)
        new == C28List(game_history', p)
    IN  /\ Len(new) \in {Len(old), Len(old) + 1}
        /\ SubSeq(new, 1, Len(old)) = old

\* game g ends in this step
C28Ends(g) ==
    /\ g \in DOMAIN games
    /\ games[g].status # "finished"
    /\ g \in DOMAIN games'
    /\ games'[g].status = "finished"

\* p has gained one entry, of game g
C28Entered(p, g) ==
    LET old == C28List(game_history, p)
        new == C28List(game_history', p)
    IN  /\ Len(new) = Len(old) + 1
        /\ new[Len(new)].game_id = g

C28Step ==
    /\ \A p \in PlayerIds \cup {EmptyId} : C28Grows(p)
    /\ \A g \in GameIds :
          C28Ends(g) =>
              \A i \in 1 .. Len(Involved(g)) : C28Entered(Involved(g)[i], g)
    /\ \A p \in PlayerIds \cup {EmptyId} :
          C28List(game_history', p) # C28List(game_history, p) =>
              \E g \in GameIds : C28Ends(g) /\ InList(p, Involved(g))

\* C28: a game adds at most one entry to a player's history list, the entry
\* goes to every participant and spectator present when the game ends, and
\* the lists only grow: no later operation, getHistory included, removes or
\* alters an entry.
C28_HistoryAppendOnly == [][C28Step]_vars

\* the step is a createGame of pid that succeeds, with game_id the id drawn
C29Creates(pid, game_id) ==
    /\ Did("create", pid)
    /\ CreateGame(pid, game_id)
    /\ RepliedNext("OK")

\* the id was not in use, and every stored game is stored as before
C29Step(pid, game_id) ==
    C29Creates(pid, game_id) =>
        /\ game_id \notin DOMAIN games
        /\ \A g \in DOMAIN games : g \in DOMAIN games' /\ games'[g] = games[g]

\* players who hold the id of a stored game are players or spectators of it
C29SameGame ==
    \A p \in DOMAIN players :
        players[p].game_id \in DOMAIN games =>
            InList(p, Involved(players[p].game_id))

\* C29: game ids are unique: createGame stores the new game under an id no
\* stored game uses, so it never replaces or alters a stored game, and two
\* players never hold the same game id while belonging to different games.
C29_UniqueGameIds ==
    /\ []C29SameGame
    /\ [][\A pid \in PlayerIds, game_id \in GameIds :
             C29Step(pid, game_id)]_vars

\* the reply in hand is that of getAvailableGames
C30Listed == last.op = "games"

\* the stored games that are waiting or playing
C30Open == {g \in DOMAIN games : games[g].status \in {"waiting", "playing"}}

\* entry e of the list describes the stored game it names
C30Describes(e) ==
    /\ e.game_id \in C30Open
    /\ e.created_by = games[e.game_id].players[1]
    /\ e.status = games[e.game_id].status

\* C30: getAvailableGames returns exactly the stored games that are waiting
\* or playing, each with its id, its creator (the first player) and its
\* status; finished and deleted games are not in the list.
C30_AvailableGames ==
    C30Listed =>
        /\ Replied("OK")
        /\ \A e \in reply.body.available_games : C30Describes(e)
        /\ \A g \in C30Open :
              \E e \in reply.body.available_games : e.game_id = g
        /\ Cardinality(reply.body.available_games) = Cardinality(C30Open)

\* a list that holds a waiting game while a finished game is stored too
C30_Witness ==
    /\ C30Listed
    /\ \E g \in DOMAIN games : games[g].status = "finished"
    /\ \E e \in reply.body.available_games : e.status = "waiting"

\* p is a player or a spectator of the stored game g
C31Listed(p, g) ==
    InList(p, games[g].players) \/ InList(p, games[g].spectators)

\* the stored games that are not finished and list p
C31GamesOf(p) ==
    {g \in DOMAIN games : games[g].status # "finished" /\ C31Listed(p, g)}

\* C31: a player's game id is set exactly when the player is a participant or
\* spectator of one stored game: a set game id names a stored game that lists
\* the player, and a player with no game id is in no game that is still open.
C31_GameIdMeansMembership ==
    \A p \in DOMAIN players :
        IF players[p].game_id = None
        THEN C31GamesOf(p) = {}
        ELSE /\ players[p].game_id \in DOMAIN games
             /\ C31Listed(p, players[p].game_id)
             /\ C31GamesOf(p) \subseteq {players[p].game_id}

\* game g is stored before and after the step
C32Kept(g) == g \in DOMAIN games /\ g \in DOMAIN games'

\* the step is a move of the last requester that wrote a mark on game g and
\* left the game playing, with no line and with an empty cell
C32Plain(g) ==
    /\ last'.op = "move"
    /\ \E rc \in AllMoves : Wrote(last'.pid, rc[1], rc[2])
    /\ GameOf(last'.pid) = g
    /\ ~Ended(games'[g].board)

C32Step(g) ==
    C32Kept(g) =>
        IF C32Plain(g)
        THEN games'[g].current_turn_idx = 1 - games[g].current_turn_idx
        ELSE games'[g].current_turn_idx = games[g].current_turn_idx

\* C32: a game's turn index changes only by a legal move that neither wins
\* nor fills the board, and then it flips to the other player; a refused
\* move, a game-ending move, join, spectate, leave, a reaper tick and register
\* leave it as it was.
C32_TurnIndexFrame == [][\A g \in GameIds : C32Step(g)]_vars

\* the cells of game g whose content changes in the step
C33Changed(g) ==
    {rc \in Cells \X Cells :
        games'[g].board[rc[1]][rc[2]] # games[g].board[rc[1]][rc[2]]}

\* the step is a move of a player of game g, and it changes one empty cell to
\* that player's mark
C33Written(g) ==
    /\ last'.op = "move"
    /\ GameOf(last'.pid) = g
    /\ Cardinality(C33Changed(g)) = 1
    /\ \A rc \in C33Changed(g) :
          /\ games[g].board[rc[1]][rc[2]] = "."
          /\ games'[g].board[rc[1]][rc[2]] = players[last'.pid].symbol
          /\ players[last'.pid].symbol \in {"X", "O"}

C33Step(g) ==
    (g \in DOMAIN games /\ g \in DOMAIN games') =>
        (C33Changed(g) # {} => C33Written(g))

\* C33: board cells are write-once: a cell that holds a mark never changes, a
\* cell only goes from empty to the mark of the player who moved, and only
\* makeMove writes to a board.
C33_CellsWriteOnce == [][\A g \in GameIds : C33Step(g)]_vars

\* how many times pid is listed in list
C34Count(pid, list) == Cardinality({i \in 1 .. Len(list) : list[i] = pid})

C34NoDuplicate ==
    \A g \in DOMAIN games, pid \in PlayerIds :
        C34Count(pid, games[g].spectators) <= 1

\* a spectator's leave_game has just been answered and the player is no
\* longer in the list they were in
C34LeaveRemoves ==
    \A g \in DOMAIN games :
        (/\ last'.op = "leave"
         /\ last'.pid \in DOMAIN players
         /\ players[last'.pid].game_id = g
         /\ InList(last'.pid, games[g].spectators)
         /\ g \in DOMAIN games')
        => ~ InList(last'.pid, games'[g].spectators)

\* C34: the spectators of a game form a set: no player id appears more than
\* once in a game's spectator list in any reachable state, and after a
\* spectator's leaveGame that player is no longer listed.
C34_SpectatorsAreASet == []C34NoDuplicate /\ [][C34LeaveRemoves]_vars

C35Running == conn.pc \notin {"idle", "done"}

\* C35: each proxied client connection is a bounded round trip: a handler
\* that has started always reaches its end and gives its worker back, whatever
\* the client and the backend do, a client that never sends a request and a
\* backend that never responds included.
C35_HandlerTerminates == C35Running ~> (conn.pc = "done")

\* the mark recorded for pid in game g
C36Mark(g, pid) ==
    LET symbols == games[g].symbols IN
    IF \E i \in 1 .. Len(symbols) : symbols[i][1] = pid
    THEN symbols[CHOOSE i \in 1 .. Len(symbols) : symbols[i][1] = pid][2]
    ELSE None

C36Shape(g) ==
    LET game == games[g] IN
    /\ game.status \in {"waiting", "playing", "finished"}
    /\ game.status = "waiting" =>
          /\ Len(game.players) = 1
          /\ C36Mark(g, game.players[1]) = "X"
    /\ game.status \in {"playing", "finished"} =>
          /\ Len(game.players) = 2
          /\ game.players[1] # game.players[2]
          /\ C36Mark(g, game.players[1]) = "X"
          /\ C36Mark(g, game.players[2]) = "O"
          /\ Len(game.symbols) = 2

\* C36: a waiting game has exactly one player; a playing or finished game has
\* exactly two distinct players with different marks, the creator X and the
\* joiner O; join_game's 'Game is already full' is never returned.
C36_PlayersShape ==
    /\ \A g \in DOMAIN games : C36Shape(g)
    /\ ~ (Replied("ERROR") /\ reply.body.message = "Game is already full")

\* a join on a game that already has two players has just been refused
C36_Witness ==
    /\ last.op = "join"
    /\ Replied("ERROR")
    /\ reply.body.message = "Game not available for joining"
    /\ last.pid \in DOMAIN players
    /\ players[last.pid].game_id = None
    /\ \E g \in DOMAIN games : games[g].status \in {"playing", "finished"}

\* how many cells of board hold symbol
C37Count(board, symbol) ==
    Cardinality({rc \in Cells \X Cells : board[rc[1]][rc[2]] = symbol})

C37Playing(g) ==
    LET board == games[g].board IN
    /\ ~ HasLine(board, "X")
    /\ ~ HasLine(board, "O")
    /\ Marks(board) < BoardSize * BoardSize
    /\ C37Count(board, "X") - C37Count(board, "O") \in {0, 1}
    /\ C37Count(board, "X") + C37Count(board, "O") = Marks(board)
    /\ games[g].current_turn_idx = Marks(board) % 2

\* C37: in every reachable playing game the board has no completed line and
\* at least one empty cell, X has as many marks as O or one more, and the turn
\* index is the number of marks modulo 2.
C37_PlayingBoard ==
    \A g \in DOMAIN games : games[g].status = "playing" => C37Playing(g)

\* a move has just filled the eighth cell of a game that is still playing
C37_Witness ==
    /\ last.op = "move"
    /\ Replied("OK")
    /\ \E g \in DOMAIN games :
          /\ games[g].status = "playing"
          /\ Marks(games[g].board) = BoardSize * BoardSize - 1

\* game g is stored before and after the step
C38Same(g) == g \in DOMAIN games /\ g \in DOMAIN games'

C38Status ==
    \A g \in DOMAIN games :
        /\ games[g].status \in {"waiting", "playing", "finished"}
        /\ games[g].winner # None <=> games[g].status = "finished"

C38Forward(g) ==
    \/ games'[g].status = games[g].status
    \/ games[g].status = "waiting" /\ games'[g].status = "playing"
    \/ games[g].status = "playing" /\ games'[g].status = "finished"

C38Frozen(g) ==
    games[g].status = "finished" =>
        /\ games'[g].board = games[g].board
        /\ games'[g].players = games[g].players
        /\ games'[g].symbols = games[g].symbols
        /\ games'[g].winner = games[g].winner
        /\ games'[g].status = "finished"

C38Step == \A g \in GameIds : C38Same(g) => C38Forward(g) /\ C38Frozen(g)

\* C38: a game's status only moves forward, waiting to playing to finished,
\* and is never 'disconnected'; winner is set exactly when the status is
\* finished; a finished game's board, players, symbols, winner and status
\* never change again.
C38_StatusForward == []C38Status /\ [][C38Step]_vars

\* server.py: game g is playing and both of its players hold it and are past
\* the timeout threshold
C39Both(g) ==
    /\ variant = "server"
    /\ g \in DOMAIN games
    /\ games[g].status = "playing"
    /\ \A i \in 1 .. Len(games[g].players) :
          LET pid == games[g].players[i] IN
          /\ players[pid].game_id = g
          /\ Late(players[pid], TimeoutThreshold)

C39Once(g) ==
    /\ g \in DOMAIN games'
    /\ games'[g].status = "finished"
    /\ Cardinality({i \in 1 .. 2 : games[g].players[i] = games'[g].winner}) = 1
    /\ \A i \in 1 .. 2 :
          LET pid == games[g].players[i] IN
          /\ Gained(pid, games'[g].winner, "disconnect")
          /\ Newest(game_history', pid).game_id = g
          /\ players'[pid].game_id = None

\* C39: in server.py, when both players of a playing game are past the timeout
\* threshold in one reaper pass, the game is ended once: each of the two gains
\* exactly one history entry for it, exactly one of them is its winner, and
\* both have no game id after the pass.
C39_ReapedOnce == [][\A g \in GameIds : (ReaperTick /\ C39Both(g)) => C39Once(g)]_vars

\* a reaper pass has just left a finished game whose two players are both past
\* the timeout threshold, the second of them its winner
C39_Witness ==
    /\ variant = "server"
    /\ last.op = "reaper"
    /\ \E g \in DOMAIN games :
          /\ games[g].status = "finished"
          /\ games[g].winner = games[g].players[2]
          /\ games[g].spectators # <<>>
          /\ \A i \in 1 .. 2 :
                /\ players[games[g].players[i]].last_seen > TimeoutThreshold
                /\ players[games[g].players[i]].game_id = None

\* pid holds game g and is listed among its spectators
C40Watches(pid, g) ==
    /\ pid \in DOMAIN players
    /\ g \in DOMAIN games
    /\ players[pid].game_id = g
    /\ InList(pid, games[g].spectators)

\* the game is as it was but for its spectator list, in which everyone but
\* those who left is listed as before, and nobody involved gained an entry
C40GameKept(g, left) ==
    /\ g \in DOMAIN games'
    /\ games'[g].status = games[g].status
    /\ games'[g].board = games[g].board
    /\ games'[g].current_turn_idx = games[g].current_turn_idx
    /\ games'[g].players = games[g].players
    /\ games'[g].winner = games[g].winner
    /\ \A q \in PlayerIds \ left :
          C34Count(q, games'[g].spectators) = C34Count(q, games[g].spectators)
    /\ \A q \in PlayerIds :
          (InList(q, games[g].players) \/ InList(q, games[g].spectators)) =>
              Get(game_history', q, <<>>) = Get(game_history, q, <<>>)

C40Gone(pid, g) ==
    /\ ~ InList(pid, games'[g].spectators)
    /\ players'[pid].game_id = None

\* a spectator's leave_game
C40Leave(pid, g) ==
    (Did("leave", pid) /\ LeaveGame(pid) /\ C40Watches(pid, g)) =>
        C40GameKept(g, {pid}) /\ C40Gone(pid, g)

\* the spectators of g the reaper pass forces out
C40Reaped(g) ==
    {pid \in DOMAIN players :
        C40Watches(pid, g) /\ Late(players[pid], TimeoutThreshold)}

\* a reaper pass of server.py in which no player of g is timed out
C40Tick(g) ==
    (/\ ReaperTick
     /\ variant = "server"
     /\ g \in DOMAIN games
     /\ C40Reaped(g) # {}
     /\ \A i \in 1 .. Len(games[g].players) :
           LET q == games[g].players[i] IN
           ~ (players[q].game_id # None /\ Late(players[q], TimeoutThreshold)))
    => /\ C40GameKept(g, C40Reaped(g))
       /\ \A pid \in C40Reaped(g) : C40Gone(pid, g)

\* C40: a spectator's departure never affects the game: when a spectator
\* calls leaveGame or is forced out by the reaper after the timeout threshold,
\* that spectator is no longer listed and has no game id, the other spectators
\* are listed as before, the game's status, board, turn index, players and
\* winner are unchanged, and no history entry is recorded.
C40_SpectatorLeaves ==
    [][\A g \in GameIds :
          /\ C40Tick(g)
          /\ \A pid \in PlayerIds : C40Leave(pid, g)]_vars

====
